---- MODULE Spec2Model ----
(***************************************************************************)
(* A model of the annotator: the annotation adjustment engine              *)
(* (src/git/adjust.rs, src/git/diff.rs), the JSONL store                   *)
(* (src/core/store.rs), the session anchor and the adjustment runs         *)
(* (src/main.rs, src/core/session.rs) and the interactive edits with       *)
(* their undo ledger (src/tui/app.rs, src/core/undo.rs).                   *)
(*                                                                         *)
(* The module holds several specifications over one set of variables:      *)
(*   SpecAdjust  adjust_annotation applied to drawn annotations and diffs  *)
(*   SpecStore   the store's operations, with torn writes and kills        *)
(*   SpecLoad    load_annotations applied to drawn files                   *)
(*   SpecRun     review and adjust runs over a growing repository          *)
(*   SpecReview  the keys of one review session                            *)
(*   SpecStatus  set_file_status called over and over on a fresh file      *)
(*   SpecSelect  cursor and selection keys, creations and reopened reviews *)
(*   SpecBatch   apply_renames, adjust_annotations and apply_adjustments   *)
(*               over drawn annotation lists and diff lists                *)
(* Each specification pins the variables it does not use.                  *)
(***************************************************************************)
EXTENDS Integers, Sequences, FiniteSets, TLC

VARIABLES
    \* ---- adjustment engine (SpecAdjust) ----
    edit,           \* the change as an interleaved stream of old and new lines
    file_diff,      \* the FileDiff handed to adjust_annotation
    annotation,     \* the annotation handed to adjust_annotation
    adjust_result,  \* NoResult, or the AdjustResult returned
    \* ---- renames and adjustments over a list (SpecBatch) ----
    diff_list,      \* the FileDiff list handed to apply_renames and
                    \* adjust_annotations
    rename_report,  \* the pairs apply_renames returned
    adjust_results, \* the (annotation, AdjustResult) pairs of
                    \* adjust_annotations, then those handed to
                    \* apply_adjustments
    batch_seen,     \* the annotation list as it was handed in, as
                    \* apply_renames left it, as apply_adjustments left it
    \* ---- the tool-private directory on disk ----
    ann_file,       \* annotations.jsonl
    tmp_file,       \* annotations.jsonl.tmp
    session_file,   \* session.json
    \* ---- the repository ----
    commits,        \* the tracked file at each commit; HEAD is the last one
    \* ---- the running process ----
    pc,             \* where the process is; "idle" when none runs
    call,           \* the operation under way (or the last one) and its arguments
    written,        \* atomic_write_jsonl: the items written to the temp file
    loaded,         \* the result of the process's last load_annotations
    command,        \* "review", "adjust", or "none" for a client of the store
    annotations,    \* app.annotations (review), annotations (cmd_adjust)
    last_adjust_commit, \* session.last_adjust_commit in memory
    from_commit,    \* compute_diffs: the anchor the run adjusts from
    to_commit,      \* compute_diffs: the head the run adjusts to
    \* ---- the review session (App) ----
    status_file,    \* file_status.jsonl
    undo_stack,     \* app.undo_stack: the undo and the redo stack
    mode,           \* app.mode
    annotation_input,       \* app.annotation_input
    editing_annotation_id,  \* app.editing_annotation_id
    cursor_line,    \* app.cursor_line
    cursor_col,     \* app.cursor_col
    selection,      \* app.selection
    \* ---- what an observer of the runs has seen ----
    at_start,       \* the files as they were when the last operation began
    last_exit,      \* how the last process ended
    head_adjusted,  \* an adjustment to the present head has returned Ok
    trail,          \* the last edit, undo and redo of the session, and the
                    \* annotations as they were before them
    last_status     \* the status last given to set_file_status, path by path

batchVars == <<diff_list, rename_report, adjust_results, batch_seen>>
adjVars == <<edit, file_diff, annotation, adjust_result, batchVars>>
diskVars == <<ann_file, tmp_file>>
procVars == <<pc, call, written, loaded>>
obsVars == <<at_start, last_exit>>
memVars == <<command, annotations, last_adjust_commit, from_commit, to_commit>>
runVars == <<session_file, commits, memVars, head_adjusted>>
appVars == <<status_file, undo_stack, mode, annotation_input,
             editing_annotation_id, cursor_line, cursor_col, selection>>
reviewVars == <<appVars, trail, last_status>>

vars == <<adjVars, diskVars, procVars, obsVars, runVars, reviewVars>>

(***************************************************************************)
(* Bounds                                                                  *)
(***************************************************************************)
\* Longest interleaved stream (old and new lines together) of a drawn diff.
MaxStreamLen == 5
\* Most records annotations.jsonl holds.
MaxFileRecords == 2
\* Most commits the repository holds.
MaxCommits == 3
\* Most annotations a review session holds.
MaxAnnotations == 1
\* Highest line number a run leaves an annotation at (a repeated adjustment
\* moves an annotation without end).
MaxLine == 4
MaxEdits == 3
\* Most annotations, and most diffs, a drawn batch holds.
MaxBatchAnnotations == 2
MaxBatchDiffs == 2
\* Most pieces (lines, blank lines, torn lines) a drawn file is made of.
MaxPieces == 3
\* The rightmost column the cursor is taken to.
MaxCol == 1

(***************************************************************************)
(* Small helpers                                                           *)
(***************************************************************************)
None == <<>>
Some(v) == <<v>>

Max(a, b) == IF a >= b THEN a ELSE b
Min(a, b) == IF a <= b THEN a ELSE b

\* The members of a sequence.
Range(s) == {s[i] : i \in 1..Len(s)}

\* `x as u32` of an i64 x. Every line number of the model is far below
\* 2^31, so a negative x wraps to a value above all of them; the model keeps
\* one such value for it.
AsU32(x) == IF x < 0 THEN 2147483647 ELSE x

(***************************************************************************)
(* The diff model (src/git/diff.rs)                                        *)
(***************************************************************************)
DiffLineType == {"Context", "Addition", "Deletion"}
FileDiffStatus == {"Added", "Deleted", "Modified", "Renamed"}

\* Hunk::old_end
old_end(hunk) ==
    IF hunk.old_lines = 0 THEN hunk.old_start
    ELSE hunk.old_start + hunk.old_lines - 1

\* A net offset that is one line short.
NetOffsetOneLess(hunk) == hunk.new_lines - hunk.old_lines - 1

\* Hunk::net_offset
net_offset(hunk) == hunk.new_lines - hunk.old_lines

\* Hunk::deleted_old_lines: the old line numbers of the Deletion lines, in
\* hunk order.
RECURSIVE DeletedFrom(_, _)
DeletedFrom(lines, i) ==
    IF i > Len(lines) THEN <<>>
    ELSE IF lines[i].origin = "Deletion" /\ lines[i].old_lineno # None
         THEN <<lines[i].old_lineno[1]>> \o DeletedFrom(lines, i + 1)
         ELSE DeletedFrom(lines, i + 1)

deleted_old_lines(hunk) == DeletedFrom(hunk.lines, 1)

(***************************************************************************)
(* The diff producer (compute_diffs): hunks as libgit2 cuts them from an   *)
(* interleaved stream of Context, Deletion and Addition lines, with        *)
(* `context` lines of context around every change.                         *)
(***************************************************************************)
\* Old (new) line number of stream position i: the old (new) lines up to i.
OldNo(s, i) == Cardinality({j \in 1..i : s[j] # "Addition"})
NewNo(s, i) == Cardinality({j \in 1..i : s[j] # "Deletion"})

OldLen(s) == OldNo(s, Len(s))
NewLen(s) == NewNo(s, Len(s))

\* In a run of changes without context between them the deletions come
\* first, as a unified diff prints them.
Normalised(s) ==
    \A i \in 1..(Len(s) - 1) : ~(s[i] = "Addition" /\ s[i + 1] = "Deletion")

EditStreams ==
    {s \in UNION {[1..n -> DiffLineType] : n \in 1..MaxStreamLen} :
        Normalised(s) /\ OldLen(s) >= 1}

\* The context sizes of the drawn diffs: 3 is libgit2's default (the one
\* compute_diffs asks for), 0 is the shape of the unit tests' hunks.
ContextSizes == {0, 1, 3}

\* Position i belongs to a hunk: a change lies within `context` lines of it.
InHunk(s, i, context) ==
    \E j \in 1..Len(s) :
        /\ s[j] # "Context"
        /\ j - i <= context
        /\ i - j <= context

\* Last position of the hunk that begins at position a.
RECURSIVE HunkEnd(_, _, _)
HunkEnd(s, a, context) ==
    IF a < Len(s) /\ InHunk(s, a + 1, context)
    THEN HunkEnd(s, a + 1, context)
    ELSE a

DiffLineAt(s, i) ==
    [origin |-> s[i],
     old_lineno |-> IF s[i] = "Addition" THEN None ELSE Some(OldNo(s, i)),
     new_lineno |-> IF s[i] = "Deletion" THEN None ELSE Some(NewNo(s, i))]

\* The hunk over stream positions a..b. A side without lines is numbered by
\* the line before it, as in "@@ -5,0 +6,2 @@".
MakeHunk(s, a, b) ==
    LET olds == OldNo(s, b) - OldNo(s, a - 1)
        news == NewNo(s, b) - NewNo(s, a - 1)
    IN  [old_start |-> IF olds = 0 THEN OldNo(s, a - 1) ELSE OldNo(s, a - 1) + 1,
         old_lines |-> olds,
         new_start |-> IF news = 0 THEN NewNo(s, a - 1) ELSE NewNo(s, a - 1) + 1,
         new_lines |-> news,
         lines |-> [k \in 1..(b - a + 1) |-> DiffLineAt(s, a + k - 1)]]

RECURSIVE HunksFrom(_, _, _)
HunksFrom(s, i, context) ==
    IF i > Len(s) THEN <<>>
    ELSE IF ~InHunk(s, i, context) THEN HunksFrom(s, i + 1, context)
    ELSE LET b == HunkEnd(s, i, context)
         IN  <<MakeHunk(s, i, b)>> \o HunksFrom(s, b + 1, context)

MakeHunks(s, context) == HunksFrom(s, 1, context)

(***************************************************************************)
(* The adjustment engine (src/git/adjust.rs)                               *)
(***************************************************************************)
NoResult == [kind |-> "none"]
Unchanged == [kind |-> "Unchanged"]
Deleted == [kind |-> "Deleted"]
Conflict(lines) == [kind |-> "Conflict", deleted_lines |-> lines]
Shifted(os, oe, ns, ne) ==
    [kind |-> "Shifted", old_start |-> os, old_end |-> oe,
     new_start |-> ns, new_end |-> ne]

\* adjust_annotation, lines 108-112: the deleted lines of an overlapping
\* hunk that fall inside the annotation.
RECURSIVE FilterInRange(_, _, _, _)
FilterInRange(ds, i, start, end) ==
    IF i > Len(ds) THEN <<>>
    ELSE IF ds[i] >= start /\ ds[i] <= end
         THEN <<ds[i]>> \o FilterInRange(ds, i + 1, start, end)
         ELSE FilterInRange(ds, i + 1, start, end)

\* The same with the comparison against the end written `<`.
DeletedInRangeBelowEnd(hunk, start, end) ==
    FilterInRange(deleted_old_lines(hunk), 1, start, end - 1)

DeletedInRange(hunk, start, end) ==
    FilterInRange(deleted_old_lines(hunk), 1, start, end)

\* adjust_annotation, lines 114-135: the offset an overlapping hunk
\* contributes from its lines before the annotation's start.
RECURSIVE PreOffsetFrom(_, _, _, _, _)
PreOffsetFrom(lines, i, start, offset, pre_offset) ==
    IF i > Len(lines) THEN pre_offset
    ELSE LET line == lines[i]
         IN  IF line.origin = "Deletion"
             THEN PreOffsetFrom(lines, i + 1, start, offset,
                      IF line.old_lineno # None /\ line.old_lineno[1] < start
                      THEN pre_offset - 1 ELSE pre_offset)
             ELSE IF line.origin = "Addition"
             THEN PreOffsetFrom(lines, i + 1, start, offset,
                      IF /\ line.new_lineno # None
                         /\ AsU32(line.new_lineno[1] - offset - pre_offset) < start
                      THEN pre_offset + 1 ELSE pre_offset)
             ELSE PreOffsetFrom(lines, i + 1, start, offset, pre_offset)

\* The same with the deletions counted only when they lie two lines or
\* more above the start (`old + 1 < start` for line 119's `old < start`).
RECURSIVE PreOffsetAboveFrom(_, _, _, _, _)
PreOffsetAboveFrom(lines, i, start, offset, pre_offset) ==
    IF i > Len(lines) THEN pre_offset
    ELSE LET line == lines[i]
         IN  IF line.origin = "Deletion"
             THEN PreOffsetAboveFrom(lines, i + 1, start, offset,
                      IF line.old_lineno # None /\ line.old_lineno[1] + 1 < start
                      THEN pre_offset - 1 ELSE pre_offset)
             ELSE IF line.origin = "Addition"
             THEN PreOffsetAboveFrom(lines, i + 1, start, offset,
                      IF /\ line.new_lineno # None
                         /\ AsU32(line.new_lineno[1] - offset - pre_offset) < start
                      THEN pre_offset + 1 ELSE pre_offset)
             ELSE PreOffsetAboveFrom(lines, i + 1, start, offset, pre_offset)

PreOffsetAbove(hunk, start, offset) ==
    PreOffsetAboveFrom(hunk.lines, 1, start, offset, 0)

PreOffset(hunk, start, offset) == PreOffsetFrom(hunk.lines, 1, start, offset, 0)

\* adjust_annotation, lines 96-163: the walk over the hunks. The range_offset
\* and _post_offset of lines 137-161 are computed and dropped; they change
\* nothing and are left out.
RECURSIVE WalkHunks(_, _, _, _, _, _)
WalkHunks(hunks, i, start, end, offset, deleted_in_range) ==
    IF i > Len(hunks)
    THEN [offset |-> offset, deleted_in_range |-> deleted_in_range]
    ELSE LET hunk == hunks[i]
         IN  IF old_end(hunk) < start
             THEN WalkHunks(hunks, i + 1, start, end,
                            offset + net_offset(hunk), deleted_in_range)
             ELSE IF hunk.old_start > end
             THEN [offset |-> offset, deleted_in_range |-> deleted_in_range]
             ELSE WalkHunks(hunks, i + 1, start, end,
                            offset + PreOffset(hunk, start, offset),
                            deleted_in_range \o DeletedInRange(hunk, start, end))

\* A walk that stops after the first hunk.
HunkWalkFirstHunk(annotation_, file_diff_) ==
    WalkHunks(IF file_diff_.hunks = <<>> THEN <<>> ELSE <<Head(file_diff_.hunks)>>,
              1, annotation_.start_line, annotation_.end_line, 0, <<>>)

\* A walk without the break of line 104: a hunk after the annotation adds
\* its net offset as a hunk before it does.
RECURSIVE WalkPastEnd(_, _, _, _, _, _)
WalkPastEnd(hunks, i, start, end, offset, deleted_in_range) ==
    IF i > Len(hunks)
    THEN [offset |-> offset, deleted_in_range |-> deleted_in_range]
    ELSE LET hunk == hunks[i]
         IN  IF old_end(hunk) < start \/ hunk.old_start > end
             THEN WalkPastEnd(hunks, i + 1, start, end,
                              offset + net_offset(hunk), deleted_in_range)
             ELSE WalkPastEnd(hunks, i + 1, start, end,
                              offset + PreOffset(hunk, start, offset),
                              deleted_in_range \o DeletedInRange(hunk, start, end))

HunkWalkPastEnd(annotation_, file_diff_) ==
    WalkPastEnd(file_diff_.hunks, 1, annotation_.start_line,
                annotation_.end_line, 0, <<>>)

HunkWalk(annotation_, file_diff_) ==
    WalkHunks(file_diff_.hunks, 1, annotation_.start_line, annotation_.end_line,
              0, <<>>)

\* A classification that moves the end by the offset of the walk and the
\* start by one line at most.
ClassifyStretching(start, end, walk) ==
    LET total_lines == end - start + 1
        new_start == AsU32(start + (IF walk.offset > 0 THEN 1
                                    ELSE IF walk.offset < 0 THEN -1 ELSE 0))
        new_end == AsU32(end + walk.offset)
    IN  IF Len(walk.deleted_in_range) = total_lines THEN Deleted
        ELSE IF walk.deleted_in_range # <<>>
        THEN Conflict(walk.deleted_in_range)
        ELSE IF new_start = start /\ new_end = end THEN Unchanged
        ELSE Shifted(start, end, new_start, new_end)

\* adjust_annotation, lines 165-187: the classification of the walk.
Classify(start, end, walk) ==
    LET total_lines == end - start + 1
        new_start == AsU32(start + walk.offset)
        new_end == AsU32(end + walk.offset)
    IN  IF Len(walk.deleted_in_range) = total_lines THEN Deleted
        ELSE IF walk.deleted_in_range # <<>>
        THEN Conflict(walk.deleted_in_range)
        ELSE IF new_start = start /\ new_end = end THEN Unchanged
        ELSE Shifted(start, end, new_start, new_end)

\* adjust_annotation without the match of lines 85-89: the hunks are walked
\* whatever the status of the diff.
AdjustByHunksOnly(annotation_, file_diff_) ==
    Classify(annotation_.start_line, annotation_.end_line,
             HunkWalk(annotation_, file_diff_))

adjust_annotation(annotation_, file_diff_) ==
    IF file_diff_.status = "Deleted" THEN Deleted
    ELSE IF file_diff_.status = "Added" THEN Unchanged
    ELSE Classify(annotation_.start_line, annotation_.end_line,
                  HunkWalk(annotation_, file_diff_))

(***************************************************************************)
(* The store (src/core/store.rs)                                           *)
(*                                                                         *)
(* A file is a sequence of tokens: the tokens of the JSON text of a        *)
(* record ("{", one token per field, "}") and the newline. A torn write    *)
(* leaves a prefix of what was to be written.                              *)
(***************************************************************************)
Ok(v) == [ok |-> TRUE, value |-> v]
Err == [ok |-> FALSE, value |-> <<>>]

NoFile == [exists |-> FALSE, content |-> <<>>]
FileWith(content) == [exists |-> TRUE, content |-> content]

Tok(k, v) == [k |-> k, v |-> v]
NL == Tok("newline", 0)
Space == Tok("space", 0)

\* The fields of an Annotation, in declaration order (serde writes them so).
AnnotationFields ==
    <<"id", "file_path", "start_line", "end_line", "text", "created_at",
      "updated_at">>

\* serde_json::to_string of an Annotation: one line, no newline inside.
to_string(a) ==
    <<Tok("{", 0)>>
    \o [i \in 1..Len(AnnotationFields) |->
            Tok(AnnotationFields[i], a[AnnotationFields[i]])]
    \o <<Tok("}", 0)>>

\* serde_json::from_str::<Annotation> of one line: the text of exactly one
\* record, or an error.
from_str(line) ==
    IF /\ Len(line) = Len(AnnotationFields) + 2
       /\ line[1].k = "{"
       /\ line[Len(line)].k = "}"
       /\ \A i \in 1..Len(AnnotationFields) : line[i + 1].k = AnnotationFields[i]
    THEN Ok([id |-> line[2].v, file_path |-> line[3].v,
             start_line |-> line[4].v, end_line |-> line[5].v,
             text |-> line[6].v, created_at |-> line[7].v,
             updated_at |-> line[8].v])
    ELSE Err

\* str::lines: the text between newlines; a last line needs no newline.
RECURSIVE SplitFrom(_, _, _)
SplitFrom(content, i, cur) ==
    IF i > Len(content) THEN (IF cur = <<>> THEN <<>> ELSE <<cur>>)
    ELSE IF content[i].k = "newline"
         THEN <<cur>> \o SplitFrom(content, i + 1, <<>>)
         ELSE SplitFrom(content, i + 1, Append(cur, content[i]))

lines(content) == SplitFrom(content, 1, <<>>)

\* str::trim (line 106): the white space at both ends of a line goes.
RECURSIVE trim(_)
trim(line) ==
    IF line = <<>> THEN line
    ELSE IF line[1].k = "space" THEN trim(Tail(line))
    ELSE IF line[Len(line)].k = "space" THEN trim(SubSeq(line, 1, Len(line) - 1))
    ELSE line

\* load_jsonl, lines 105-113, with the error of line 110 dropped: a line
\* that does not parse is left out and the load goes on.
RECURSIVE ParseSkippingFrom(_, _)
ParseSkippingFrom(ls, i) ==
    IF i > Len(ls) THEN Ok(<<>>)
    ELSE LET item == from_str(trim(ls[i]))
             rest == ParseSkippingFrom(ls, i + 1)
         IN  IF item.ok THEN Ok(<<item.value>> \o rest.value) ELSE rest

LoadSkippingUnparsed(file) ==
    IF ~file.exists THEN Ok(<<>>) ELSE ParseSkippingFrom(lines(file.content), 1)

\* load_jsonl, lines 105-113: blank lines are skipped, the first line that
\* does not parse fails the whole load.
RECURSIVE ParseFrom(_, _)
ParseFrom(ls, i) ==
    IF i > Len(ls) THEN Ok(<<>>)
    ELSE IF trim(ls[i]) = <<>> THEN ParseFrom(ls, i + 1)
    ELSE LET item == from_str(trim(ls[i]))
         IN  IF ~item.ok THEN Err
             ELSE LET rest == ParseFrom(ls, i + 1)
                  IN  IF rest.ok THEN Ok(<<item.value>> \o rest.value) ELSE Err

load_jsonl(file) ==
    IF ~file.exists THEN Ok(<<>>) ELSE ParseFrom(lines(file.content), 1)

\* What one writeln!(file, "{json}") puts out.
JsonLine(item) == to_string(item) \o <<NL>>

RECURSIVE JsonLinesFrom(_, _)
JsonLinesFrom(items, i) ==
    IF i > Len(items) THEN <<>>
    ELSE JsonLine(items[i]) \o JsonLinesFrom(items, i + 1)

JsonLines(items) == JsonLinesFrom(items, 1)

\* append_jsonl run to its end: the file is created when missing and the
\* line goes after whatever the file holds.
append_jsonl(file, item) == FileWith(file.content \o JsonLine(item))

\* atomic_write_jsonl run to its end: the target is the temp file renamed.
atomic_write_jsonl(items) == FileWith(JsonLines(items))

\* Store::update_annotation, lines 43-46: the first record with the id is
\* replaced in place.
RECURSIVE ReplaceFirst(_, _, _)
ReplaceFirst(all, i, updated) ==
    IF i > Len(all) THEN all
    ELSE IF all[i].id = updated.id THEN [all EXCEPT ![i] = updated]
    ELSE ReplaceFirst(all, i + 1, updated)

\* Store::delete_annotation, lines 51-52: every record with the id goes.
RECURSIVE WithoutId(_, _, _)
WithoutId(all, i, id) ==
    IF i > Len(all) THEN <<>>
    ELSE IF all[i].id # id THEN <<all[i]>> \o WithoutId(all, i + 1, id)
    ELSE WithoutId(all, i + 1, id)

\* The number of records a file holds, whole or torn: each starts with "{".
FileRecords(file) ==
    Cardinality({i \in 1..Len(file.content) : file.content[i].k = "{"})

(***************************************************************************)
(* Processes, and the store's operations step by step                      *)
(***************************************************************************)
NoCall == [op |-> "none", items |-> <<>>, then |-> "idle"]
NoLoad == [ok |-> FALSE, value |-> <<>>]
Exit(kind, at) == [kind |-> kind, at |-> at]
NoExit == Exit("none", "idle")

\* The files as an observer sees them now.
Snapshot == [ann_file |-> ann_file, session_file |-> session_file]

\* An operation begins: the process leaves "idle".
Begin(op, items, first_pc) ==
    /\ pc = "idle"
    /\ pc' = first_pc
    /\ call' = [op |-> op, items |-> items, then |-> "idle"]
    /\ written' = 0
    /\ at_start' = Snapshot
    /\ UNCHANGED last_exit

\* The operation ends, with "ok" or "error".
Finish(kind) ==
    /\ pc' = "idle"
    /\ last_exit' = Exit(kind, pc)

\* The operation returns Ok to its caller: a client of the store is back at
\* "idle", a run goes on where the call says.
Return ==
    /\ pc' = call.then
    /\ last_exit' = IF call.then = "idle" THEN Exit("ok", pc) ELSE last_exit

\* append_jsonl, lines 118-125: writeln! on an unbuffered File writes the
\* JSON text and the newline with one write each.
AppendWriteJson ==
    /\ pc = "append_json"
    /\ ann_file' = FileWith(ann_file.content \o to_string(call.items[1]))
    /\ pc' = "append_nl"
    /\ UNCHANGED <<tmp_file, call, written, loaded, obsVars, adjVars, runVars, reviewVars>>

AppendWriteNewline ==
    /\ pc = "append_nl"
    /\ ann_file' = FileWith(ann_file.content \o <<NL>>)
    /\ Finish("ok")
    /\ UNCHANGED <<tmp_file, call, written, loaded, at_start, adjVars, runVars, reviewVars>>

\* The process dies inside the write of the JSON text: a proper prefix of it
\* has reached the file.
AppendTorn ==
    /\ pc = "append_json"
    /\ \E n \in 1..(Len(to_string(call.items[1])) - 1) :
           ann_file' = FileWith(ann_file.content
                                \o SubSeq(to_string(call.items[1]), 1, n))
    /\ pc' = "idle"
    /\ last_exit' = Exit("crash", pc)
    /\ loaded' = NoLoad
    /\ UNCHANGED <<tmp_file, call, written, at_start, adjVars, runVars, reviewVars>>

\* atomic_write_jsonl, line 132: File::create(&tmp) in place of line 132's
\* target, written over the target itself.
SaveCreateInPlace ==
    /\ pc = "save_tmp"
    /\ ann_file' = FileWith(<<>>)
    /\ pc' = "save_write"
    /\ UNCHANGED <<tmp_file, call, written, loaded, obsVars, adjVars, runVars, reviewVars>>

\* atomic_write_jsonl, lines 129-133: the temp file is created, or emptied.
SaveCreateTmp ==
    /\ pc = "save_tmp"
    /\ tmp_file' = FileWith(<<>>)
    /\ pc' = "save_write"
    /\ UNCHANGED <<ann_file, call, written, loaded, obsVars, adjVars, runVars, reviewVars>>

\* atomic_write_jsonl, lines 134-137: one item goes to the temp file.
SaveWriteItem ==
    /\ pc = "save_write"
    /\ written < Len(call.items)
    /\ tmp_file' = FileWith(tmp_file.content \o JsonLine(call.items[written + 1]))
    /\ written' = written + 1
    /\ UNCHANGED <<ann_file, pc, call, loaded, obsVars, adjVars, runVars, reviewVars>>

\* atomic_write_jsonl, lines 138-141: every item is written; the rename puts
\* the temp file in the target's place and the caller goes on.
SaveRename ==
    /\ pc = "save_write"
    /\ written = Len(call.items)
    /\ ann_file' = FileWith(tmp_file.content)
    /\ tmp_file' = NoFile
    /\ Return
    /\ UNCHANGED <<call, written, loaded, at_start, adjVars, runVars, reviewVars>>

\* The process is killed (or the machine stops) between two steps: what is
\* on disk stays, what is in memory is gone.
Crash ==
    /\ pc # "idle"
    /\ pc' = "idle"
    /\ last_exit' = Exit("crash", pc)
    /\ loaded' = NoLoad
    /\ written' = 0
    /\ UNCHANGED <<diskVars, call, at_start, adjVars, runVars, reviewVars>>

(***************************************************************************)
(* SpecStore: a client calls the store's operations; the process may die   *)
(* at any step                                                             *)
(***************************************************************************)
Ann(id, path, start, end, text, created, updated) ==
    [id |-> id, file_path |-> path, start_line |-> start, end_line |-> end,
     text |-> text, created_at |-> created, updated_at |-> updated]

\* The annotations the client passes in: two records, and the first one
\* again with its text edited.
StorePool ==
    {Ann(1, "a.rs", 1, 2, "first", 1, 1),
     Ann(1, "a.rs", 1, 2, "second", 1, 2),
     Ann(2, "b.rs", 3, 3, "first", 2, 2)}

StoreLists == UNION {[1..n -> StorePool] : n \in 0..MaxFileRecords}

\* Store::load_annotations
StoreLoad ==
    /\ pc = "idle"
    /\ loaded' = load_jsonl(ann_file)
    /\ call' = [op |-> "load", items |-> <<>>, then |-> "idle"]
    /\ at_start' = Snapshot
    /\ last_exit' = Exit(IF load_jsonl(ann_file).ok THEN "ok" ELSE "error", "load")
    /\ UNCHANGED <<diskVars, pc, written, adjVars, runVars, reviewVars>>

\* Store::append_annotation
StoreAppend ==
    /\ FileRecords(ann_file) < MaxFileRecords
    /\ \E a \in StorePool : Begin("append", <<a>>, "append_json")
    /\ UNCHANGED <<diskVars, loaded, adjVars, runVars, reviewVars>>

\* Store::save_annotations
StoreSave ==
    /\ \E items \in StoreLists : Begin("save", items, "save_tmp")
    /\ UNCHANGED <<diskVars, loaded, adjVars, runVars, reviewVars>>

\* Store::update_annotation with lines 44-46 changed: the record with the
\* id is taken out and the updated one pushed at the end.
StoreUpdateAppending ==
    /\ pc = "idle"
    /\ \E updated \in StorePool :
        LET all == load_jsonl(ann_file)
        IN  /\ loaded' = all
            /\ at_start' = Snapshot
            /\ written' = 0
            /\ IF all.ok
               THEN /\ call' = [op |-> "update",
                                items |-> Append(WithoutId(all.value, 1, updated.id),
                                                 updated),
                                then |-> "idle", arg |-> updated]
                    /\ pc' = "save_tmp"
                    /\ UNCHANGED last_exit
               ELSE /\ call' = [op |-> "update", items |-> <<>>, then |-> "idle",
                                arg |-> updated]
                    /\ pc' = "idle"
                    /\ last_exit' = Exit("error", "load")
    /\ UNCHANGED <<diskVars, adjVars, runVars, reviewVars>>

\* Store::update_annotation: load, replace, rewrite. The call keeps the
\* argument it was given.
StoreUpdate ==
    /\ pc = "idle"
    /\ \E updated \in StorePool :
        LET all == load_jsonl(ann_file)
        IN  /\ loaded' = all
            /\ at_start' = Snapshot
            /\ written' = 0
            /\ IF all.ok
               THEN /\ call' = [op |-> "update",
                                items |-> ReplaceFirst(all.value, 1, updated),
                                then |-> "idle", arg |-> updated]
                    /\ pc' = "save_tmp"
                    /\ UNCHANGED last_exit
               ELSE /\ call' = [op |-> "update", items |-> <<>>, then |-> "idle",
                                arg |-> updated]
                    /\ pc' = "idle"
                    /\ last_exit' = Exit("error", "load")
    /\ UNCHANGED <<diskVars, adjVars, runVars, reviewVars>>

\* Store::delete_annotation: load, filter, rewrite. The call keeps the id
\* it was given.
StoreDelete ==
    /\ pc = "idle"
    /\ \E a \in StorePool :
        LET all == load_jsonl(ann_file)
        IN  /\ loaded' = all
            /\ at_start' = Snapshot
            /\ written' = 0
            /\ IF all.ok
               THEN /\ call' = [op |-> "delete",
                                items |-> WithoutId(all.value, 1, a.id),
                                then |-> "idle", arg |-> a.id]
                    /\ pc' = "save_tmp"
                    /\ UNCHANGED last_exit
               ELSE /\ call' = [op |-> "delete", items |-> <<>>, then |-> "idle",
                                arg |-> a.id]
                    /\ pc' = "idle"
                    /\ last_exit' = Exit("error", "load")
    /\ UNCHANGED <<diskVars, adjVars, runVars, reviewVars>>

NoSeen == [input |-> <<>>, renamed |-> <<>>, applied |-> <<>>]

PinBatch ==
    /\ diff_list = <<>>
    /\ rename_report = <<>>
    /\ adjust_results = <<>>
    /\ batch_seen = NoSeen

PinAdjust ==
    /\ edit = <<>>
    /\ file_diff = [status |-> "Modified", hunks |-> <<>>]
    /\ annotation = [start_line |-> 1, end_line |-> 1]
    /\ adjust_result = NoResult
    /\ PinBatch

PinProcess ==
    /\ ann_file = NoFile
    /\ tmp_file = NoFile
    /\ pc = "idle"
    /\ call = NoCall
    /\ written = 0
    /\ loaded = NoLoad
    /\ at_start = [ann_file |-> NoFile, session_file |-> NoFile]
    /\ last_exit = NoExit

PinRun ==
    /\ session_file = NoFile
    /\ commits = <<>>
    /\ command = "none"
    /\ annotations = <<>>
    /\ last_adjust_commit = None
    /\ from_commit = None
    /\ to_commit = None
    /\ head_adjusted = FALSE

NoHeld ==
    [annotations |-> <<>>, stored |-> <<>>,
     stack |-> [undo |-> <<>>, redo |-> <<>>]]

NoTrail ==
    [ops |-> <<>>, subject |-> None, before_edit |-> NoHeld,
     before_undo |-> NoHeld]

\* The paths set_file_status is called with, and no call yet for any.
StatusPaths == {"a.rs", "b.rs", "c.rs"}
NoStatusSet == [p \in StatusPaths |-> None]

PinReview ==
    /\ last_status = NoStatusSet
    /\ status_file = NoFile
    /\ undo_stack = [undo |-> <<>>, redo |-> <<>>]
    /\ mode = "Viewing"
    /\ annotation_input = ""
    /\ editing_annotation_id = None
    /\ cursor_line = 1
    /\ cursor_col = 0
    /\ selection = None
    /\ trail = NoTrail

\* A fresh directory: no file yet. Every other content, torn ones too, comes
\* from the operations.
InitStore == PinAdjust /\ PinProcess /\ PinRun /\ PinReview

NextStore ==
    \/ StoreLoad
    \/ StoreAppend
    \/ StoreSave
    \/ StoreUpdate
    \/ StoreDelete
    \/ AppendWriteJson
    \/ AppendWriteNewline
    \/ AppendTorn
    \/ SaveCreateTmp
    \/ SaveWriteItem
    \/ SaveRename
    \/ Crash

SpecStore == InitStore /\ [][NextStore]_vars

(***************************************************************************)
(* SpecLoad: load_annotations applied to drawn files                       *)
(***************************************************************************)
LoadPool == {Ann(1, "a.rs", 1, 2, "first", 1, 1), Ann(2, "b.rs", 3, 3, "first", 2, 2)}

\* What a file is made of: whole lines, lines with white space in front,
\* records without their newline, blank and white lines, and what a torn
\* append leaves.
LoadPieces ==
    {JsonLine(a) : a \in LoadPool}
        \cup {<<Space>> \o JsonLine(a) : a \in LoadPool}
        \cup {to_string(a) : a \in LoadPool}
        \cup {<<NL>>, <<Space, NL>>}
        \cup {SubSeq(to_string(Ann(1, "a.rs", 1, 2, "first", 1, 1)), 1, 3)}

RECURSIVE Concat(_)
Concat(pieces) ==
    IF pieces = <<>> THEN <<>> ELSE Head(pieces) \o Concat(Tail(pieces))

LoadFiles ==
    {NoFile} \cup
        {FileWith(Concat(pieces)) :
            pieces \in UNION {[1..n -> LoadPieces] : n \in 0..MaxPieces}}

InitLoad ==
    /\ PinAdjust /\ PinRun /\ PinReview
    /\ ann_file \in LoadFiles
    /\ tmp_file = NoFile
    /\ pc = "idle"
    /\ call = NoCall
    /\ written = 0
    /\ loaded = NoLoad
    /\ at_start = [ann_file |-> NoFile, session_file |-> NoFile]
    /\ last_exit = NoExit

NextLoad == StoreLoad

SpecLoad == InitLoad /\ [][NextLoad]_vars

(***************************************************************************)
(* The repository as compute_diffs sees it (src/git/adjust.rs, lines 6-82) *)
(*                                                                         *)
(* One tracked file. A commit records its path and its lines; a line keeps *)
(* its identity through the commits, so the change between two commits is  *)
(* one interleaved stream.                                                 *)
(***************************************************************************)
\* git2::DiffOptions::new(): three lines of context around a change.
context_lines == 3

Paths == {"a.rs", "b.rs"}
FirstCommit == [path |-> "a.rs", content |-> <<1, 2>>]

\* The line a commit adds is new to the history.
FreshLine == 10 + Len(commits)

head_commit_id == Len(commits)

RECURSIVE StreamFrom(_, _, _, _)
StreamFrom(old, i, new, j) ==
    IF i > Len(old) /\ j > Len(new) THEN <<>>
    ELSE IF i <= Len(old) /\ old[i] \notin Range(new)
         THEN <<"Deletion">> \o StreamFrom(old, i + 1, new, j)
    ELSE IF j <= Len(new) /\ new[j] \notin Range(old)
         THEN <<"Addition">> \o StreamFrom(old, i, new, j + 1)
    ELSE <<"Context">> \o StreamFrom(old, i + 1, new, j + 1)

\* The patch between two versions of the file.
Stream(old, new) == StreamFrom(old, 1, new, 1)

\* find_similar, lines 16-23: a path change is a rename when at least half
\* of the content is shared.
Similar(old, new) ==
    4 * Cardinality(Range(old) \cap Range(new)) >= Len(old) + Len(new)

FileDiff(old_path, new_path, status, stream) ==
    [old_path |-> old_path, new_path |-> new_path, status |-> status,
     hunks |-> MakeHunks(stream, context_lines)]

\* compute_diffs(repo, from, to): one FileDiff per delta, deltas in path
\* order. libgit2 gives an Added or Deleted delta the same path on both sides.
DiffsBetween(old, new) ==
    LET gone == FileDiff(Some(old.path), Some(old.path), "Deleted",
                         Stream(old.content, <<>>))
        come == FileDiff(Some(new.path), Some(new.path), "Added",
                         Stream(<<>>, new.content))
    IN  IF old.path = new.path
        THEN IF old.content = new.content THEN <<>>
             ELSE <<FileDiff(Some(old.path), Some(new.path), "Modified",
                             Stream(old.content, new.content))>>
        ELSE IF Similar(old.content, new.content)
        THEN <<FileDiff(Some(old.path), Some(new.path), "Renamed",
                        Stream(old.content, new.content))>>
        ELSE IF old.path = "a.rs" THEN <<gone, come>> ELSE <<come, gone>>

compute_diffs(from, to) == DiffsBetween(commits[from], commits[to])

(***************************************************************************)
(* Renames and adjustments over the annotation list                        *)
(* (src/git/rename.rs, src/git/adjust.rs lines 190-233)                    *)
(***************************************************************************)
\* chrono::Utc::now(): the clock is read off the history, it advances with
\* every commit.
Now == Len(commits)

\* apply_renames, lines 12-17: one Renamed diff over every annotation.
RenameAll(anns, old, new, now) ==
    [i \in 1..Len(anns) |->
        IF anns[i].file_path = old
        THEN [anns[i] EXCEPT !.file_path = new, !.updated_at = now]
        ELSE anns[i]]

RECURSIVE RenamesFrom(_, _, _, _, _)
RenamesFrom(anns, diffs, i, now, renames) ==
    IF i > Len(diffs) THEN [annotations |-> anns, renames |-> renames]
    ELSE IF /\ diffs[i].status = "Renamed"
            /\ diffs[i].old_path # None
            /\ diffs[i].new_path # None
         THEN RenamesFrom(RenameAll(anns, diffs[i].old_path[1],
                                    diffs[i].new_path[1], now),
                          diffs, i + 1, now,
                          Append(renames, <<diffs[i].old_path[1],
                                            diffs[i].new_path[1]>>))
    ELSE RenamesFrom(anns, diffs, i + 1, now, renames)

apply_renames(anns, diffs, now) == RenamesFrom(anns, diffs, 1, now, <<>>)

\* adjust_annotations, lines 198-201: the first diff that names the path.
RECURSIVE FindDiff(_, _, _)
FindDiff(diffs, i, path) ==
    IF i > Len(diffs) THEN None
    ELSE IF diffs[i].old_path = Some(path) \/ diffs[i].new_path = Some(path)
         THEN Some(diffs[i])
    ELSE FindDiff(diffs, i + 1, path)

adjust_annotations(anns, diffs) ==
    [i \in 1..Len(anns) |->
        LET found == FindDiff(diffs, 1, anns[i].file_path)
        IN  <<anns[i],
              IF found = None THEN Unchanged
              ELSE adjust_annotation(anns[i], found[1])>>]

\* A shift that moves every annotation of the list.
ShiftEvery(anns, i, id, new_start, new_end, now) ==
    [k \in 1..Len(anns) |->
        [anns[k] EXCEPT !.start_line = new_start, !.end_line = new_end,
                        !.updated_at = now]]

\* apply_adjustments, lines 218-222: the first annotation with the id moves.
RECURSIVE ShiftFirst(_, _, _, _, _, _)
ShiftFirst(anns, i, id, new_start, new_end, now) ==
    IF i > Len(anns) THEN anns
    ELSE IF anns[i].id = id
         THEN [anns EXCEPT ![i] = [@ EXCEPT !.start_line = new_start,
                                            !.end_line = new_end,
                                            !.updated_at = now]]
    ELSE ShiftFirst(anns, i + 1, id, new_start, new_end, now)

\* An application that moves an annotation by the distance of the shift
\* from where it is now.
RECURSIVE AdjustmentsFromRelative(_, _, _, _)
AdjustmentsFromRelative(anns, results, i, now) ==
    IF i > Len(results) THEN anns
    ELSE LET original == results[i][1]
             result == results[i][2]
             at == {k \in 1..Len(anns) : anns[k].id = original.id}
         IN  IF result.kind = "Shifted" /\ at # {}
             THEN LET k == CHOOSE k \in at : \A l \in at : k <= l
                      by == result.new_start - result.old_start
                  IN  AdjustmentsFromRelative(
                          ShiftFirst(anns, 1, original.id,
                                     anns[k].start_line + by,
                                     anns[k].end_line + by, now),
                          results, i + 1, now)
             ELSE IF result.kind = "Deleted"
             THEN AdjustmentsFromRelative(WithoutId(anns, 1, original.id),
                                          results, i + 1, now)
             ELSE AdjustmentsFromRelative(anns, results, i + 1, now)

RECURSIVE AdjustmentsFrom(_, _, _, _)
AdjustmentsFrom(anns, results, i, now) ==
    IF i > Len(results) THEN anns
    ELSE LET original == results[i][1]
             result == results[i][2]
         IN  IF result.kind = "Shifted"
             THEN AdjustmentsFrom(
                      ShiftFirst(anns, 1, original.id, result.new_start,
                                 result.new_end, now),
                      results, i + 1, now)
             ELSE IF result.kind = "Deleted"
             THEN AdjustmentsFrom(WithoutId(anns, 1, original.id),
                                  results, i + 1, now)
             ELSE AdjustmentsFrom(anns, results, i + 1, now)

apply_adjustments(anns, results, now) == AdjustmentsFrom(anns, results, 1, now)

\* run_adjustment lines 366-371, cmd_adjust lines 400-437: what is in memory
\* when save_annotations is called.
Adjusted(anns, from, to, now) ==
    LET diffs == compute_diffs(from, to)
        renamed == apply_renames(anns, diffs, now).annotations
    IN  apply_adjustments(renamed, adjust_annotations(renamed, diffs), now)

(***************************************************************************)
(* session.json (src/core/session.rs)                                      *)
(***************************************************************************)
\* serde_json::to_string_pretty of a Session; of its fields only
\* last_adjust_commit is followed here.
SessionJson(anchor) ==
    <<Tok("{", 0), Tok("last_adjust_commit", anchor), Tok("}", 0)>>

\* Session::load: the default when there is no file, else the parsed text.
SessionLoad(file) ==
    IF ~file.exists THEN Ok([last_adjust_commit |-> None])
    ELSE IF /\ Len(file.content) = 3
            /\ file.content[1].k = "{"
            /\ file.content[2].k = "last_adjust_commit"
            /\ file.content[3].k = "}"
         THEN Ok([last_adjust_commit |-> file.content[2].v])
    ELSE Err

(***************************************************************************)
(* SpecRun: review sessions and adjust commands over a repository that     *)
(* gains commits; a run may fail at its diff or at a write, or be killed   *)
(***************************************************************************)
RunExit(kind, at) ==
    [kind |-> kind, at |-> at, command |-> command, to |-> to_commit]

\* The process is gone, and its memory with it.
EndRun(kind) ==
    /\ pc' = "idle"
    /\ last_exit' = RunExit(kind, pc)
    /\ command' = "none"
    /\ annotations' = <<>>
    /\ last_adjust_commit' = None
    /\ from_commit' = None
    /\ to_commit' = None
    /\ call' = NoCall
    /\ written' = 0
    /\ loaded' = NoLoad

\* The versions one commit can make of the file: a line added, a line
\* removed, or the file moved.
NextVersions(v) ==
    {[v EXCEPT !.content = SubSeq(v.content, 1, k) \o <<FreshLine>>
                           \o SubSeq(v.content, k + 1, Len(v.content))] :
         k \in 0..Len(v.content)}
    \cup {[v EXCEPT !.content = SubSeq(v.content, 1, k - 1)
                                \o SubSeq(v.content, k + 1, Len(v.content))] :
              k \in {j \in 1..Len(v.content) : Len(v.content) > 1}}
    \cup {[v EXCEPT !.path = q] : q \in Paths \ {v.path}}

\* Somebody commits to the repository, between two runs of the tool (a
\* review session shows the files as they are at the head).
Commit ==
    /\ pc = "idle"
    /\ Len(commits) < MaxCommits
    /\ \E v \in NextVersions(commits[Len(commits)]) :
           commits' = Append(commits, v)
    /\ head_adjusted' = FALSE
    /\ UNCHANGED <<adjVars, reviewVars, diskVars, session_file, procVars, memVars,
                   obsVars>>

\* A start of the review that, finding no anchor, adjusts from the first
\* commit.
StartReviewFromFirst ==
    /\ pc = "idle"
    /\ at_start' = Snapshot
    /\ LET session == SessionLoad(session_file)
           anns == load_jsonl(ann_file)
           head == head_commit_id
       IN  IF ~session.ok \/ ~anns.ok
           THEN /\ pc' = "idle"
                /\ last_exit' = [RunExit("error", "start") EXCEPT
                                    !.command = "review"]
                /\ UNCHANGED <<memVars, call, written, loaded>>
           ELSE /\ command' = "review"
                /\ annotations' = anns.value
                /\ UNCHANGED <<call, written, loaded, last_exit>>
                /\ IF session.value.last_adjust_commit = None
                   THEN /\ last_adjust_commit' = Some(1)
                        /\ IF head = 1
                           THEN /\ pc' = "tui"
                                /\ UNCHANGED <<from_commit, to_commit>>
                           ELSE /\ pc' = "diff"
                                /\ from_commit' = Some(1)
                                /\ to_commit' = Some(head)
                   ELSE /\ last_adjust_commit' = session.value.last_adjust_commit
                        /\ IF session.value.last_adjust_commit = Some(head)
                           THEN /\ pc' = "tui"
                                /\ UNCHANGED <<from_commit, to_commit>>
                           ELSE /\ pc' = "diff"
                                /\ from_commit' = session.value.last_adjust_commit
                                /\ to_commit' = Some(head)
    /\ UNCHANGED <<adjVars, reviewVars, diskVars, session_file, commits, head_adjusted>>

\* cmd_review, lines 27-43: App::new loads the session and the annotations,
\* then the anchor is compared with the head.
StartReview ==
    /\ pc = "idle"
    /\ at_start' = Snapshot
    /\ LET session == SessionLoad(session_file)
           anns == load_jsonl(ann_file)
           head == head_commit_id
       IN  IF ~session.ok \/ ~anns.ok
           THEN /\ pc' = "idle"
                /\ last_exit' = [RunExit("error", "start") EXCEPT
                                    !.command = "review"]
                /\ UNCHANGED <<memVars, call, written, loaded>>
           ELSE /\ command' = "review"
                /\ annotations' = anns.value
                /\ UNCHANGED <<call, written, loaded, last_exit>>
                /\ IF session.value.last_adjust_commit = None
                   THEN /\ last_adjust_commit' = Some(head)
                        /\ pc' = "tui"
                        /\ UNCHANGED <<from_commit, to_commit>>
                   ELSE /\ last_adjust_commit' = session.value.last_adjust_commit
                        /\ IF session.value.last_adjust_commit = Some(head)
                           THEN /\ pc' = "tui"
                                /\ UNCHANGED <<from_commit, to_commit>>
                           ELSE /\ pc' = "diff"
                                /\ from_commit' = session.value.last_adjust_commit
                                /\ to_commit' = Some(head)
    /\ UNCHANGED <<adjVars, reviewVars, diskVars, session_file, commits, head_adjusted>>

\* cmd_adjust, lines 382-398.
StartAdjust ==
    /\ pc = "idle"
    /\ at_start' = Snapshot
    /\ LET session == SessionLoad(session_file)
           head == head_commit_id
           Ended(kind) ==
               /\ pc' = "idle"
               /\ last_exit' = [RunExit(kind, "start") EXCEPT
                                   !.command = "adjust"]
               /\ UNCHANGED <<memVars, call, written, loaded>>
       IN  IF ~session.ok \/ session.value.last_adjust_commit = None
           THEN Ended("error")
           ELSE IF session.value.last_adjust_commit = Some(head)
           THEN Ended("ok")
           ELSE /\ command' = "adjust"
                /\ last_adjust_commit' = session.value.last_adjust_commit
                /\ from_commit' = session.value.last_adjust_commit
                /\ to_commit' = Some(head)
                /\ pc' = "diff"
                /\ UNCHANGED <<annotations, call, written, loaded, last_exit>>
    /\ UNCHANGED <<adjVars, reviewVars, diskVars, session_file, commits, head_adjusted>>

\* A failed diff that would still move the anchor.
ComputeDiffsFailAdvancing ==
    /\ pc = "diff"
    /\ EndRun("error")
    /\ session_file' = FileWith(SessionJson(to_commit))
    /\ UNCHANGED <<adjVars, reviewVars, diskVars, commits, at_start, head_adjusted>>

\* compute_diffs(..)? with an Err: the run ends there.
ComputeDiffsFail ==
    /\ pc = "diff"
    /\ EndRun("error")
    /\ UNCHANGED <<adjVars, reviewVars, diskVars, session_file, commits, at_start,
                   head_adjusted>>

\* The line numbers stay within the bound, or are a wrapped negative.
WithinLines(anns) ==
    \A i \in 1..Len(anns) :
        /\ anns[i].start_line <= MaxLine \/ anns[i].start_line = AsU32(-1)
        /\ anns[i].end_line <= MaxLine \/ anns[i].end_line = AsU32(-1)

\* RunAdjust with the anchor persisted before the annotations.
RunAdjustAnchorFirst ==
    /\ pc = "diff"
    /\ LET now == Now
        IN
        LET base == IF command = "adjust" THEN load_jsonl(ann_file)
                    ELSE Ok(annotations)
            adjusted == Adjusted(base.value, from_commit[1], to_commit[1], now)
        IN  /\ base.ok
            /\ WithinLines(adjusted)
            /\ annotations' = adjusted
            /\ call' = [op |-> "save", items |-> adjusted, then |-> "anchor"]
            /\ written' = 0
            /\ pc' = "save_tmp"
            /\ session_file' = FileWith(SessionJson(to_commit))
            /\ UNCHANGED <<command, last_adjust_commit, from_commit, to_commit,
                           loaded, last_exit>>
    /\ UNCHANGED <<adjVars, reviewVars, diskVars, commits, at_start, head_adjusted>>

\* run_adjustment lines 366-373, cmd_adjust lines 400-438: the diffs are
\* computed, the annotations (cmd_adjust loads them here) are renamed and
\* adjusted in memory, and save_annotations is called.
\* A run_adjustment that records what it did to the first annotation in
\* the undo ledger, as App::update_annotation records an edit.
RunAdjustRecording ==
    /\ pc = "diff"
    /\ command = "review"
    /\ LET adjusted == Adjusted(annotations, from_commit[1], to_commit[1], Now)
       IN  /\ WithinLines(adjusted)
           /\ annotations' = adjusted
           /\ call' = [op |-> "save", items |-> adjusted, then |-> "anchor"]
           /\ undo_stack' =
                  IF annotations # <<>> /\ adjusted # <<>>
                     /\ adjusted[1] # annotations[1]
                  THEN [undo |-> Append(undo_stack.undo,
                                        [kind |-> "Update",
                                         old |-> annotations[1],
                                         new |-> adjusted[1]]),
                        redo |-> <<>>]
                  ELSE undo_stack
    /\ written' = 0
    /\ pc' = "save_tmp"
    /\ UNCHANGED <<command, last_adjust_commit, from_commit, to_commit, loaded,
                   last_exit, adjVars, diskVars, session_file, commits,
                   at_start, head_adjusted, status_file, mode,
                   annotation_input, editing_annotation_id, cursor_line,
                   cursor_col, selection, trail, last_status>>

RunAdjust ==
    /\ pc = "diff"
    /\ LET now == Now
        IN
        LET base == IF command = "adjust" THEN load_jsonl(ann_file)
                    ELSE Ok(annotations)
            adjusted == Adjusted(base.value, from_commit[1], to_commit[1], now)
        IN  IF ~base.ok
            THEN EndRun("error")
            ELSE /\ WithinLines(adjusted)
                 /\ annotations' = adjusted
                 /\ call' = [op |-> "save", items |-> adjusted,
                             then |-> "anchor"]
                 /\ written' = 0
                 /\ pc' = "save_tmp"
                 /\ UNCHANGED <<command, last_adjust_commit, from_commit,
                                to_commit, loaded, last_exit>>
    /\ UNCHANGED <<adjVars, reviewVars, diskVars, session_file, commits, at_start,
                   head_adjusted>>

\* save_annotations(..)? with an Err, at the creation of the temp file or
\* at a write to it.
SaveFail ==
    /\ pc \in {"save_tmp", "save_write"}
    /\ EndRun("error")
    /\ UNCHANGED <<adjVars, reviewVars, diskVars, session_file, commits, at_start,
                   head_adjusted>>

\* run_adjustment lines 375-376, cmd_adjust lines 440-442: the anchor moves
\* in memory and the session is saved.
AdvanceAnchor ==
    /\ pc = "anchor"
    /\ last_adjust_commit' = to_commit
    /\ call' = [op |-> "session", items |-> <<>>,
                then |-> IF command = "review" THEN "tui" ELSE "idle"]
    /\ pc' = "session_open"
    /\ UNCHANGED <<adjVars, reviewVars, diskVars, session_file, commits, written, loaded,
                   command, annotations, from_commit, to_commit, obsVars,
                   head_adjusted>>

\* Session::save, line 28: std::fs::write opens session.json truncating it
SessionOpen ==
    /\ pc = "session_open"
    /\ session_file' = FileWith(<<>>)
    /\ pc' = "session_data"
    /\ UNCHANGED <<adjVars, reviewVars, diskVars, commits, call, written, loaded, memVars,
                   obsVars, head_adjusted>>

\* and writes the text. The caller goes on: run_adjustment returns into the
\* review session, cmd_adjust and a review that quits end.
SessionWrite ==
    /\ pc = "session_data"
    /\ session_file' = FileWith(SessionJson(last_adjust_commit))
    /\ IF call.then = "idle"
       THEN /\ EndRun("ok")
            /\ head_adjusted' = (command = "adjust" \/ head_adjusted)
       ELSE /\ pc' = call.then
            /\ head_adjusted' = TRUE
            /\ UNCHANGED <<call, written, loaded, memVars, last_exit>>
    /\ UNCHANGED <<adjVars, reviewVars, diskVars, commits, at_start>>

\* Session::save returns an Err, from the open or from the write. cmd_adjust
\* hands it on with `?`; App::save_session drops it (let _ =), so that
\* run_adjustment returns Ok and a review that quits ends as usual.
SessionFail ==
    /\ pc \in {"session_open", "session_data"}
    /\ IF command = "adjust"
       THEN EndRun("error") /\ UNCHANGED head_adjusted
       ELSE IF call.then = "idle"
       THEN EndRun("ok") /\ UNCHANGED head_adjusted
       ELSE /\ pc' = call.then
            /\ head_adjusted' = TRUE
            /\ UNCHANGED <<call, written, loaded, memVars, last_exit>>
    /\ UNCHANGED <<adjVars, reviewVars, diskVars, session_file, commits, at_start>>

\* A uuid no annotation in memory or on disk has.
FreshId ==
    LET used == {a.id : a \in Range(annotations)}
                \cup {a.id : a \in Range(load_jsonl(ann_file).value)}
                \cup {u.old.id : u \in Range(undo_stack.undo)}
                \cup {u.old.id : u \in Range(undo_stack.redo)}
    IN  CHOOSE n \in 1..(Cardinality(used) + 1) : n \notin used

\* App::create_annotation on the file as the session shows it.
TuiCreate ==
    /\ pc = "tui"
    /\ Len(annotations) < MaxAnnotations
    /\ LET shown == commits[last_adjust_commit[1]]
       IN  \E start \in 1..Len(shown.content) :
               \E end \in start..Len(shown.content) :
                   LET a == Ann(FreshId, shown.path, start, end, "note", Now, Now)
                   IN  /\ annotations' = Append(annotations, a)
                       /\ ann_file' = append_jsonl(ann_file, a)
    /\ UNCHANGED <<adjVars, reviewVars, tmp_file, session_file, commits, procVars,
                   command, last_adjust_commit, from_commit, to_commit,
                   obsVars, head_adjusted>>

\* run_tui, lines 75-84: the user quits and the session is saved.
Quit ==
    /\ pc = "tui"
    /\ call' = [op |-> "session", items |-> <<>>, then |-> "idle"]
    /\ pc' = "session_open"
    /\ UNCHANGED <<adjVars, reviewVars, diskVars, session_file, commits, written, loaded,
                   memVars, obsVars, head_adjusted>>

\* The process is killed between two steps.
Kill ==
    /\ pc # "idle"
    /\ EndRun("crash")
    /\ UNCHANGED <<adjVars, reviewVars, diskVars, session_file, commits, at_start,
                   head_adjusted>>

NoRunExit ==
    [kind |-> "none", at |-> "idle", command |-> "none", to |-> None]

\* A repository with its first commit, and no .annotator directory yet.
InitRun ==
    /\ PinAdjust
    /\ PinReview
    /\ ann_file = NoFile
    /\ tmp_file = NoFile
    /\ session_file = NoFile
    /\ commits = <<FirstCommit>>
    /\ pc = "idle"
    /\ call = NoCall
    /\ written = 0
    /\ loaded = NoLoad
    /\ command = "none"
    /\ annotations = <<>>
    /\ last_adjust_commit = None
    /\ from_commit = None
    /\ to_commit = None
    /\ at_start = [ann_file |-> NoFile, session_file |-> NoFile]
    /\ last_exit = NoRunExit
    /\ head_adjusted = FALSE

NextRun ==
    \/ Commit
    \/ StartReview
    \/ StartAdjust
    \/ ComputeDiffsFail
    \/ RunAdjust
    \/ SaveCreateTmp
    \/ SaveWriteItem
    \/ SaveRename
    \/ SaveFail
    \/ AdvanceAnchor
    \/ SessionOpen
    \/ SessionWrite
    \/ SessionFail
    \/ TuiCreate
    \/ Quit
    \/ Kill

SpecRun == InitRun /\ [][NextRun]_vars

(***************************************************************************)
(* The undo ledger (src/core/undo.rs)                                      *)
(***************************************************************************)
\* UndoAction. Create and Delete carry one annotation, held in both fields.
Create(a) == [kind |-> "Create", old |-> a, new |-> a]
Delete(a) == [kind |-> "Delete", old |-> a, new |-> a]
Update(old, new) == [kind |-> "Update", old |-> old, new |-> new]

invert(action) ==
    IF action.kind = "Create" THEN Delete(action.old)
    ELSE IF action.kind = "Delete" THEN Create(action.old)
    ELSE Update(action.new, action.old)

Front(stack) == SubSeq(stack, 1, Len(stack) - 1)
Last(stack) == stack[Len(stack)]

\* A push that leaves the redo stack as it is.
PushKeepingRedo(stack, action) ==
    [undo |-> Append(stack.undo, action), redo |-> stack.redo]

push(stack, action) == [undo |-> Append(stack.undo, action), redo |-> <<>>]

\* An undo that, finding nothing to undo, forgets what could be redone.
UndoClearingRedo(stack) ==
    IF stack.undo = <<>>
    THEN [stack |-> [undo |-> <<>>, redo |-> <<>>], action |-> None]
    ELSE [stack |-> [undo |-> Front(stack.undo),
                     redo |-> Append(stack.redo, Last(stack.undo))],
          action |-> Some(invert(Last(stack.undo)))]

\* The stack after the call, and the action returned (None on an empty stack).
undo(stack) ==
    IF stack.undo = <<>> THEN [stack |-> stack, action |-> None]
    ELSE [stack |-> [undo |-> Front(stack.undo),
                     redo |-> Append(stack.redo, Last(stack.undo))],
          action |-> Some(invert(Last(stack.undo)))]

\* A redo that hands the undo stack the inverted action.
RedoPushingInverted(stack) ==
    IF stack.redo = <<>> THEN [stack |-> stack, action |-> None]
    ELSE [stack |-> [undo |-> Append(stack.undo, invert(Last(stack.redo))),
                     redo |-> Front(stack.redo)],
          action |-> Some(invert(Last(stack.redo)))]

\* A redo that returns the action it moves, as it was pushed.
RedoReturningAction(stack) ==
    IF stack.redo = <<>> THEN [stack |-> stack, action |-> None]
    ELSE [stack |-> [undo |-> Append(stack.undo, Last(stack.redo)),
                     redo |-> Front(stack.redo)],
          action |-> Some(Last(stack.redo))]

redo(stack) ==
    IF stack.redo = <<>> THEN [stack |-> stack, action |-> None]
    ELSE [stack |-> [undo |-> Append(stack.undo, Last(stack.redo)),
                     redo |-> Front(stack.redo)],
          action |-> Some(invert(Last(stack.redo)))]

(***************************************************************************)
(* The store as the review session calls it: every call runs to its end,   *)
(* and the session drops an Err (let _ = ...), leaving the file as it was  *)
(***************************************************************************)
append_annotation(file, a) == append_jsonl(file, a)

update_annotation(file, updated) ==
    LET all == load_jsonl(file)
    IN  IF all.ok THEN atomic_write_jsonl(ReplaceFirst(all.value, 1, updated))
        ELSE file

delete_annotation(file, id) ==
    LET all == load_jsonl(file)
    IN  IF all.ok THEN atomic_write_jsonl(WithoutId(all.value, 1, id))
        ELSE file

\* file_status.jsonl is followed as the list of its records.
RECURSIVE SetStatusFrom(_, _, _, _)
SetStatusFrom(all, i, file_path, status) ==
    IF i > Len(all)
    THEN Append(all, [file_path |-> file_path, status |-> status])
    ELSE IF all[i].file_path = file_path
         THEN [all EXCEPT ![i] = [@ EXCEPT !.status = status]]
    ELSE SetStatusFrom(all, i + 1, file_path, status)

\* Store::set_file_status with lines 77-79 left out: the state is pushed
\* whether the path has a record or not.
SetStatusAppending(file, file_path, status) ==
    FileWith(Append(file.content, [file_path |-> file_path, status |-> status]))

set_file_status(file, file_path, status) ==
    FileWith(SetStatusFrom(file.content, 1, file_path, status))

\* Store::get_file_status, lines 89-94: the status of the first record with
\* the path, FileStatus::default() when there is none.
RECURSIVE GetStatusFrom(_, _, _)
GetStatusFrom(all, i, file_path) ==
    IF i > Len(all) THEN "Unreviewed"
    ELSE IF all[i].file_path = file_path THEN all[i].status
    ELSE GetStatusFrom(all, i + 1, file_path)

get_file_status(file, file_path) == GetStatusFrom(file.content, 1, file_path)

(***************************************************************************)
(* The review session (src/tui/app.rs, src/main.rs lines 93-281)           *)
(***************************************************************************)
\* The texts the user types.
Texts == {"first", "second"}

\* The file the session shows.
current_file == commits[Len(commits)].path
total_lines == Len(commits[Len(commits)].content)

contains_line(a, line) == a.start_line <= line /\ line <= a.end_line

\* The first annotation of the current file that holds the cursor line.
RECURSIVE PositionAtCursor(_, _)
PositionAtCursor(anns, i) ==
    IF i > Len(anns) THEN None
    ELSE IF anns[i].file_path = current_file /\ contains_line(anns[i], cursor_line)
         THEN Some(i)
    ELSE PositionAtCursor(anns, i + 1)

RECURSIVE PositionOfId(_, _, _)
PositionOfId(anns, i, id) ==
    IF i > Len(anns) THEN None
    ELSE IF anns[i].id = id THEN Some(i)
    ELSE PositionOfId(anns, i + 1, id)

RemoveAt(anns, i) == SubSeq(anns, 1, i - 1) \o SubSeq(anns, i + 1, Len(anns))

\* App::apply_undo_action: the annotations and the store after it.
apply_undo_action(anns, file, action) ==
    IF action.kind = "Create"
    THEN [annotations |-> Append(anns, action.old),
          ann_file |-> append_annotation(file, action.old)]
    ELSE IF action.kind = "Delete"
    THEN [annotations |-> WithoutId(anns, 1, action.old.id),
          ann_file |-> delete_annotation(file, action.old.id)]
    ELSE IF PositionOfId(anns, 1, action.new.id) # None
    THEN [annotations |-> ReplaceFirst(anns, 1, action.new),
          ann_file |-> update_annotation(file, action.new)]
    ELSE [annotations |-> anns, ann_file |-> file]

(***************************************************************************)
(* SpecReview: the keys of one review session over one file, without the   *)
(* selection keys: an annotation is made on the cursor line. Every store   *)
(* call runs to its end; the trail remembers the last edit and the undo    *)
(* and redo that follow it at once, and any other key clears it            *)
(***************************************************************************)
\* What the clock reads during the session: later than the head commit.
Clock == {Now + 1}

\* The annotations the store holds.
Stored == load_jsonl(ann_file).value

Held ==
    [annotations |-> annotations, stored |-> Stored, stack |-> undo_stack]

EditTrail(kind, a) ==
    [ops |-> <<kind>>, subject |-> Some(a),
     before_edit |-> Held, before_undo |-> NoTrail.before_undo]

\* The session leaves everything outside itself and the store alone.
ReviewFrame ==
    UNCHANGED <<adjVars, tmp_file, procVars, obsVars, session_file, commits,
                command, last_adjust_commit, from_commit, to_commit,
                head_adjusted, last_status, cursor_col>>

CursorUp ==
    /\ pc = "tui"
    /\ mode = "Viewing"
    /\ cursor_line' = Max(Max(cursor_line - 1, 0), 1)
    /\ selection' = None
    /\ ReviewFrame
    /\ UNCHANGED <<ann_file, annotations, status_file, undo_stack, mode,
                   annotation_input, editing_annotation_id>>
    /\ trail' = NoTrail

CursorDown ==
    /\ pc = "tui"
    /\ mode = "Viewing"
    /\ cursor_line' = Min(cursor_line + 1, Max(total_lines, 1))
    /\ selection' = None
    /\ ReviewFrame
    /\ UNCHANGED <<ann_file, annotations, status_file, undo_stack, mode,
                   annotation_input, editing_annotation_id>>
    /\ trail' = NoTrail

\* Action::CreateAnnotation: the input box opens, empty.
KeyCreateAnnotation ==
    /\ pc = "tui"
    /\ mode = "Viewing"
    /\ mode' = "AnnotationInput"
    /\ annotation_input' = ""
    /\ ReviewFrame
    /\ UNCHANGED <<ann_file, annotations, status_file, undo_stack,
                   editing_annotation_id, cursor_line, selection>>
    /\ trail' = NoTrail

\* Action::EditAnnotation: the input box opens on the annotation under the
\* cursor, if there is one.
KeyEditAnnotation ==
    /\ mode = "Viewing"
    /\ LET at == PositionAtCursor(annotations, 1)
       IN  IF at # None
           THEN /\ editing_annotation_id' = Some(annotations[at[1]].id)
                /\ annotation_input' = annotations[at[1]].text
                /\ mode' = "AnnotationEdit"
           ELSE UNCHANGED <<editing_annotation_id, annotation_input, mode>>
    /\ ReviewFrame
    /\ UNCHANGED <<ann_file, annotations, status_file, undo_stack,
                   cursor_line, selection>>
    /\ trail' = NoTrail

\* Action::InputChar, InputBackspace, InputDelete: the keys that leave a
\* text in the input box.
InputText ==
    /\ mode \in {"AnnotationInput", "AnnotationEdit"}
    /\ \E text \in Texts : annotation_input' = text
    /\ ReviewFrame
    /\ UNCHANGED <<ann_file, annotations, status_file, undo_stack, mode,
                   editing_annotation_id, cursor_line, selection>>
    /\ trail' = NoTrail

\* Action::Cancel
Cancel ==
    /\ mode \in {"AnnotationInput", "AnnotationEdit"}
    /\ mode' = "Viewing"
    /\ annotation_input' = ""
    /\ editing_annotation_id' = None
    /\ ReviewFrame
    /\ UNCHANGED <<ann_file, annotations, status_file, undo_stack,
                   cursor_line, selection>>
    /\ trail' = NoTrail

\* Action::Confirm in AnnotationInput: App::create_annotation
ConfirmCreate ==
    /\ pc = "tui"
    /\ mode = "AnnotationInput"
    /\ Len(undo_stack.undo) + Len(undo_stack.redo) < MaxEdits
    /\ Len(annotations) < MaxFileRecords
    /\ FileRecords(ann_file) < MaxFileRecords
    /\ \E now \in Clock :
           LET start == IF selection # None THEN selection[1].start_line
                        ELSE cursor_line
               end == IF selection # None THEN selection[1].end_line
                      ELSE cursor_line
               a == Ann(FreshId, current_file, start, end, annotation_input,
                        now, now)
           IN  /\ undo_stack' = push(undo_stack, Create(a))
               /\ annotations' = Append(annotations, a)
               /\ ann_file' = append_annotation(ann_file, a)
               /\ trail' = EditTrail("create", a)
    /\ status_file' = set_file_status(status_file, current_file, "Annotated")
    /\ annotation_input' = ""
    /\ selection' = None
    /\ mode' = "Viewing"
    /\ ReviewFrame
    /\ UNCHANGED <<editing_annotation_id, cursor_line>>

\* Action::Confirm in AnnotationEdit: App::update_annotation
ConfirmUpdate ==
    /\ mode = "AnnotationEdit"
    /\ Len(undo_stack.undo) + Len(undo_stack.redo) < MaxEdits
    /\ LET at == IF editing_annotation_id = None THEN None
                 ELSE PositionOfId(annotations, 1, editing_annotation_id[1])
       IN  IF at # None
           THEN \E now \in Clock :
                    LET old == annotations[at[1]]
                        new == [old EXCEPT !.text = annotation_input,
                                           !.updated_at = now]
                    IN  /\ annotations' = [annotations EXCEPT ![at[1]] = new]
                        /\ undo_stack' = push(undo_stack, Update(old, new))
                        /\ ann_file' = update_annotation(ann_file, new)
                        /\ trail' = EditTrail("update", old)
           ELSE /\ trail' = NoTrail
                /\ UNCHANGED <<annotations, undo_stack, ann_file>>
    /\ editing_annotation_id' = None
    /\ annotation_input' = ""
    /\ mode' = "Viewing"
    /\ ReviewFrame
    /\ UNCHANGED <<status_file, cursor_line, selection>>

\* Action::DeleteAnnotation: App::delete_annotation_at_cursor
DeleteAnnotation ==
    /\ mode = "Viewing"
    /\ Len(undo_stack.undo) + Len(undo_stack.redo) < MaxEdits
    /\ LET at == PositionAtCursor(annotations, 1)
       IN  IF at # None
           THEN LET removed == annotations[at[1]]
                    rest == RemoveAt(annotations, at[1])
                IN  /\ annotations' = rest
                    /\ undo_stack' = push(undo_stack, Delete(removed))
                    /\ ann_file' = delete_annotation(ann_file, removed.id)
                    /\ status_file' =
                           IF \E a \in Range(rest) : a.file_path = current_file
                           THEN status_file
                           ELSE set_file_status(status_file, current_file,
                                                "Unreviewed")
                    /\ trail' = EditTrail("delete", removed)
           ELSE /\ trail' = NoTrail
                /\ UNCHANGED <<annotations, undo_stack, ann_file,
                               status_file>>
    /\ ReviewFrame
    /\ UNCHANGED <<mode, annotation_input, editing_annotation_id,
                   cursor_line, selection>>

\* The lists stay within the bound when an action puts an annotation back.
RoomFor(action) ==
    action.kind = "Create" =>
        /\ Len(annotations) < MaxFileRecords
        /\ FileRecords(ann_file) < MaxFileRecords

\* Action::Undo: App::apply_undo
Undo ==
    /\ mode = "Viewing"
    /\ LET popped == undo(undo_stack)
       IN  IF popped.action # None
           THEN LET after == apply_undo_action(annotations, ann_file,
                                               popped.action[1])
                IN  /\ RoomFor(popped.action[1])
                    /\ undo_stack' = popped.stack
                    /\ annotations' = after.annotations
                    /\ ann_file' = after.ann_file
                    /\ trail' = IF Len(trail.ops) = 1
                                THEN [trail EXCEPT
                                         !.ops = Append(@, "undo"),
                                         !.before_undo = Held]
                                ELSE NoTrail
           ELSE /\ trail' = NoTrail
                /\ UNCHANGED <<undo_stack, annotations, ann_file>>
    /\ ReviewFrame
    /\ UNCHANGED <<status_file, mode, annotation_input,
                   editing_annotation_id, cursor_line, selection>>

\* Action::Redo: App::apply_redo
Redo ==
    /\ mode = "Viewing"
    /\ LET popped == redo(undo_stack)
       IN  IF popped.action # None
           THEN LET after == apply_undo_action(annotations, ann_file,
                                               popped.action[1])
                IN  /\ RoomFor(popped.action[1])
                    /\ undo_stack' = popped.stack
                    /\ annotations' = after.annotations
                    /\ ann_file' = after.ann_file
                    /\ trail' = IF Len(trail.ops) = 2
                                THEN [trail EXCEPT !.ops = Append(@, "redo")]
                                ELSE NoTrail
           ELSE /\ trail' = NoTrail
                /\ UNCHANGED <<undo_stack, annotations, ann_file>>
    /\ ReviewFrame
    /\ UNCHANGED <<status_file, mode, annotation_input,
                   editing_annotation_id, cursor_line, selection>>

\* The stores a session may open on: none, one annotation.
ReviewStores ==
    {<<>>, <<Ann(1, FirstCommit.path, 1, 1, "first", 1, 1)>>}

\* App::new after run_adjustment found the anchor at the head: the
\* annotations are the stored ones, the stacks are empty, the cursor is on
\* line 1.
InitReview ==
    /\ PinAdjust
    /\ \E stored \in ReviewStores :
           /\ ann_file = IF stored = <<>> THEN NoFile
                         ELSE atomic_write_jsonl(stored)
           /\ annotations = stored
           /\ status_file =
                  IF stored = <<>> THEN NoFile
                  ELSE FileWith(<<[file_path |-> FirstCommit.path,
                                   status |-> "Annotated"]>>)
    /\ tmp_file = NoFile
    /\ pc = "tui"
    /\ call = NoCall
    /\ written = 0
    /\ loaded = NoLoad
    /\ at_start = [ann_file |-> NoFile, session_file |-> NoFile]
    /\ last_exit = NoRunExit
    /\ commits = <<FirstCommit>>
    /\ session_file = FileWith(SessionJson(Some(1)))
    /\ command = "review"
    /\ last_adjust_commit = Some(1)
    /\ from_commit = None
    /\ to_commit = None
    /\ head_adjusted = FALSE
    /\ undo_stack = [undo |-> <<>>, redo |-> <<>>]
    /\ mode = "Viewing"
    /\ annotation_input = ""
    /\ editing_annotation_id = None
    /\ cursor_line = 1
    /\ cursor_col = 0
    /\ selection = None
    /\ trail = NoTrail
    /\ last_status = NoStatusSet

NextReview ==
    \/ CursorUp
    \/ CursorDown
    \/ KeyCreateAnnotation
    \/ KeyEditAnnotation
    \/ InputText
    \/ Cancel
    \/ ConfirmCreate
    \/ ConfirmUpdate
    \/ DeleteAnnotation
    \/ Undo
    \/ Redo

SpecReview == InitReview /\ [][NextReview]_vars

(***************************************************************************)
(* SpecStatus: set_file_status called over and over on a fresh status file *)
(***************************************************************************)
FileStatuses == {"Unreviewed", "Annotated", "Clean"}

InitStatus == PinAdjust /\ PinProcess /\ PinRun /\ PinReview

\* Store::set_file_status: load, set or push, rewrite.
SetFileStatus ==
    /\ \E file_path \in StatusPaths, status \in FileStatuses :
           /\ status_file' = set_file_status(status_file, file_path, status)
           /\ last_status' = [last_status EXCEPT ![file_path] = Some(status)]
    /\ UNCHANGED <<adjVars, diskVars, procVars, obsVars, runVars, undo_stack,
                   mode, annotation_input, editing_annotation_id, cursor_line,
                   cursor_col, selection, trail>>

NextStatus == SetFileStatus

SpecStatus == InitStatus /\ [][NextStatus]_vars

(***************************************************************************)
(* SpecSelect: the cursor and the selection move, annotations are created  *)
(* from them, and the review is started again after a commit, which        *)
(* adjusts the annotations; no write fails and nothing is killed           *)
(* (src/main.rs, src/tui/selection.rs, src/tui/app.rs)                     *)
(***************************************************************************)
\* Selection::new
Selection_new(line, col) ==
    [anchor_line |-> line, anchor_col |-> col, start_line |-> line,
     start_col |-> col, end_line |-> line, end_col |-> col]

\* Selection::extend_to without the comparison of line 24: the selection
\* always runs from the anchor to the cursor.
ExtendFromAnchor(sel, line, col) ==
    [sel EXCEPT !.start_line = sel.anchor_line, !.start_col = sel.anchor_col,
                !.end_line = line, !.end_col = col]

\* Selection::extend_to: (line, col) < (anchor_line, anchor_col) compares the
\* lines first and the columns when the lines are equal.
extend_to(sel, line, col) ==
    IF line < sel.anchor_line \/ (line = sel.anchor_line /\ col < sel.anchor_col)
    THEN [sel EXCEPT !.start_line = line, !.start_col = col,
                     !.end_line = sel.anchor_line, !.end_col = sel.anchor_col]
    ELSE [sel EXCEPT !.start_line = sel.anchor_line,
                     !.start_col = sel.anchor_col,
                     !.end_line = line, !.end_col = col]

\* The four selection keys, lines 168-201: a selection begins at the
\* cursor when there is none, the cursor moves, the selection follows.
SelectTo(new_line, new_col) ==
    /\ cursor_line' = new_line
    /\ cursor_col' = new_col
    /\ selection' =
           Some(extend_to(IF selection = None
                          THEN Selection_new(cursor_line, cursor_col)
                          ELSE selection[1],
                          new_line, new_col))
    /\ trail' = NoTrail
    /\ UNCHANGED <<adjVars, diskVars, procVars, obsVars, runVars, status_file,
                   undo_stack, mode, annotation_input, editing_annotation_id,
                   last_status>>

SelectUp ==
    /\ pc = "tui"
    /\ mode = "Viewing"
    /\ SelectTo(Max(Max(cursor_line - 1, 0), 1), cursor_col)

SelectDown ==
    /\ pc = "tui"
    /\ mode = "Viewing"
    /\ SelectTo(Min(cursor_line + 1, Max(total_lines, 1)), cursor_col)

SelectLeft ==
    /\ pc = "tui"
    /\ mode = "Viewing"
    /\ SelectTo(cursor_line, Max(cursor_col - 1, 0))

SelectRight ==
    /\ pc = "tui"
    /\ mode = "Viewing"
    /\ cursor_col < MaxCol
    /\ SelectTo(cursor_line, cursor_col + 1)

\* Action::CursorRight, lines 144-147
CursorRight ==
    /\ pc = "tui"
    /\ mode = "Viewing"
    /\ cursor_col < MaxCol
    /\ cursor_col' = cursor_col + 1
    /\ selection' = None
    /\ trail' = NoTrail
    /\ UNCHANGED <<adjVars, diskVars, procVars, obsVars, runVars, status_file,
                   undo_stack, mode, annotation_input, editing_annotation_id,
                   cursor_line, last_status>>

\* The session is left, somebody commits, and the review is started again:
\* App::new loads the annotations, keeps the cursor of the session and
\* makes a new undo ledger; cmd_review finds the anchor behind the head
\* (main.rs, lines 31-35) and calls run_adjustment.
Restart ==
    /\ pc = "tui"
    /\ mode = "Viewing"
    /\ Len(commits) < MaxCommits
    /\ \E v \in NextVersions(commits[Len(commits)]) :
           commits' = Append(commits, v)
    /\ annotations' = load_jsonl(ann_file).value
    /\ from_commit' = last_adjust_commit
    /\ to_commit' = Some(Len(commits) + 1)
    /\ pc' = "diff"
    /\ head_adjusted' = FALSE
    /\ selection' = None
    /\ undo_stack' = [undo |-> <<>>, redo |-> <<>>]
    /\ trail' = NoTrail
    /\ UNCHANGED <<adjVars, diskVars, session_file, call, written, loaded,
                   obsVars, command, last_adjust_commit, status_file, mode,
                   annotation_input, editing_annotation_id, cursor_line,
                   cursor_col, last_status>>

\* A first review session on the first commit, nothing annotated yet.
InitSelect ==
    /\ PinAdjust
    /\ PinReview
    /\ ann_file = NoFile
    /\ tmp_file = NoFile
    /\ pc = "tui"
    /\ call = NoCall
    /\ written = 0
    /\ loaded = NoLoad
    /\ at_start = [ann_file |-> NoFile, session_file |-> NoFile]
    /\ last_exit = NoRunExit
    /\ commits = <<FirstCommit>>
    /\ session_file = FileWith(SessionJson(Some(1)))
    /\ command = "review"
    /\ annotations = <<>>
    /\ last_adjust_commit = Some(1)
    /\ from_commit = None
    /\ to_commit = None
    /\ head_adjusted = FALSE

NextSelect ==
    \/ CursorUp
    \/ CursorDown
    \/ CursorRight
    \/ SelectUp
    \/ SelectDown
    \/ SelectLeft
    \/ SelectRight
    \/ KeyCreateAnnotation
    \/ ConfirmCreate
    \/ Restart
    \/ RunAdjust
    \/ SaveCreateTmp
    \/ SaveWriteItem
    \/ SaveRename
    \/ AdvanceAnchor
    \/ SessionOpen
    \/ SessionWrite

SpecSelect == InitSelect /\ [][NextSelect]_vars

(***************************************************************************)
(* SpecBatch: a caller hands an annotation list and a diff list to         *)
(* apply_renames, adjust_annotations and apply_adjustments in the order of *)
(* run_adjustment, and applies the results once more                       *)
(***************************************************************************)
BatchPaths == Paths \cup {"c.rs"}

\* The ranges of the drawn annotations.
BatchRanges == {<<1, 1>>, <<2, 3>>}

\* The annotation lists handed in: the ids are distinct, as Annotation::new
\* makes them; the annotations were written before the batch runs.
BatchLists ==
    UNION {{[i \in 1..n |->
                Ann(i, path[i], range[i][1], range[i][2], "note", 0, 0)] :
            path \in [1..n -> BatchPaths], range \in [1..n -> BatchRanges]} :
           n \in 0..MaxBatchAnnotations}

\* The changes of a file of three lines: a line added on top, the second
\* line removed, the first line removed.
BatchStreams ==
    {<<"Addition", "Context", "Context", "Context">>,
     <<"Context", "Deletion", "Context">>,
     <<"Deletion", "Context", "Context">>}

\* The diffs a list is drawn from: renames and modifications with hunks,
\* deleted and added files.
BatchDiffs ==
    {FileDiff(Some(old), Some(new), "Renamed", s) :
        old \in BatchPaths, new \in BatchPaths, s \in BatchStreams}
    \cup {FileDiff(Some(path), Some(path), "Modified", s) :
             path \in BatchPaths, s \in BatchStreams}
    \cup {FileDiff(Some(path), Some(path), "Deleted",
                   <<"Deletion", "Deletion", "Deletion">>) :
             path \in BatchPaths}
    \cup {FileDiff(Some(path), Some(path), "Added", <<"Addition">>) :
             path \in BatchPaths}

\* A rename is to another path.
BatchDiffLists ==
    UNION {{l \in [1..n -> BatchDiffs] :
                \A k \in 1..n :
                    l[k].status = "Renamed" => l[k].old_path # l[k].new_path} :
           n \in 0..MaxBatchDiffs}

\* The clock during the batch.
BatchNow == 1

BatchFrame ==
    UNCHANGED <<edit, file_diff, annotation, adjust_result, diskVars, call,
                written, loaded, obsVars, session_file, commits, command,
                last_adjust_commit, from_commit, to_commit, head_adjusted,
                reviewVars>>

InitBatch ==
    /\ edit = <<>>
    /\ file_diff = [status |-> "Modified", hunks |-> <<>>]
    /\ annotation = [start_line |-> 1, end_line |-> 1]
    /\ adjust_result = NoResult
    /\ \E anns \in BatchLists, list \in BatchDiffLists :
           /\ annotations = anns
           /\ diff_list = list
           /\ batch_seen = [NoSeen EXCEPT !.input = anns]
    /\ rename_report = <<>>
    /\ adjust_results = <<>>
    /\ ann_file = NoFile
    /\ tmp_file = NoFile
    /\ pc = "apply_renames"
    /\ call = NoCall
    /\ written = 0
    /\ loaded = NoLoad
    /\ at_start = [ann_file |-> NoFile, session_file |-> NoFile]
    /\ last_exit = NoExit
    /\ session_file = NoFile
    /\ commits = <<>>
    /\ command = "none"
    /\ last_adjust_commit = None
    /\ from_commit = None
    /\ to_commit = None
    /\ head_adjusted = FALSE
    /\ PinReview

\* run_adjustment, line 367
BatchRenames ==
    /\ pc = "apply_renames"
    /\ LET done == apply_renames(annotations, diff_list, BatchNow)
       IN  /\ annotations' = done.annotations
           /\ rename_report' = done.renames
           /\ batch_seen' = [batch_seen EXCEPT !.renamed = done.annotations]
    /\ pc' = "adjust_annotations"
    /\ BatchFrame
    /\ UNCHANGED <<diff_list, adjust_results>>

\* run_adjustment, line 368
BatchAdjust ==
    /\ pc = "adjust_annotations"
    /\ adjust_results' = adjust_annotations(annotations, diff_list)
    /\ pc' = "apply_adjustments"
    /\ BatchFrame
    /\ UNCHANGED <<annotations, diff_list, rename_report, batch_seen>>

\* run_adjustment, line 369: the results as they are, or, from a caller
\* that holds one back, the results without the first.
BatchApply ==
    /\ pc = "apply_adjustments"
    /\ \E given \in {adjust_results}
                    \cup (IF adjust_results = <<>> THEN {}
                          ELSE {Tail(adjust_results)}) :
           /\ adjust_results' = given
           /\ annotations' = apply_adjustments(annotations, given, BatchNow)
           /\ batch_seen' =
                  [batch_seen EXCEPT
                      !.applied = apply_adjustments(annotations, given,
                                                    BatchNow)]
    /\ pc' = "apply_again"
    /\ BatchFrame
    /\ UNCHANGED <<diff_list, rename_report>>

\* apply_adjustments with the same results a second time.
BatchApplyAgain ==
    /\ pc = "apply_again"
    /\ annotations' = apply_adjustments(annotations, adjust_results,
                                        BatchNow + 1)
    /\ pc' = "returned"
    /\ BatchFrame
    /\ UNCHANGED batchVars

NextBatch ==
    \/ BatchRenames
    \/ BatchAdjust
    \/ BatchApply
    \/ BatchApplyAgain

SpecBatch == InitBatch /\ [][NextBatch]_vars

(***************************************************************************)
(* SpecAdjust: adjust_annotation on every drawn annotation and diff        *)
(***************************************************************************)
\* A Modified or Renamed diff cut from stream s. Paths play no part in
\* adjust_annotation.
DiffOf(s, context, status) ==
    [status |-> status, hunks |-> MakeHunks(s, context)]

InitAdjust ==
    \E s \in EditStreams, context \in ContextSizes,
       status \in {"Modified", "Renamed"} :
        \E start \in 1..OldLen(s) :
            \E end \in start..OldLen(s) :
                /\ edit = s
                /\ file_diff = DiffOf(s, context, status)
                /\ annotation = [start_line |-> start, end_line |-> end]
                /\ adjust_result = NoResult
                /\ PinBatch
                /\ PinProcess
                /\ PinRun
                /\ PinReview

Adjust ==
    /\ adjust_result = NoResult
    /\ adjust_result' = adjust_annotation(annotation, file_diff)
    /\ UNCHANGED <<edit, file_diff, annotation, batchVars, diskVars, procVars,
                   obsVars, runVars, reviewVars>>

NextAdjust == Adjust

SpecAdjust == InitAdjust /\ [][NextAdjust]_vars

\* ---- reference semantics, read off the interleaved stream ----

\* The stream position of old line k.
PosOfOld(s, k) ==
    CHOOSE i \in 1..Len(s) : s[i] # "Addition" /\ OldNo(s, i) = k

\* Old line k is removed by the change.
OldDeleted(s, k) == s[PosOfOld(s, k)] = "Deletion"

\* The new line number of a surviving old line k.
NewLineOf(s, k) == NewNo(s, PosOfOld(s, k))

\* The old line numbers that occur as Deletion lines anywhere in a diff.
DeletionLinesOf(file_diff_) ==
    UNION {Range(deleted_old_lines(file_diff_.hunks[h])) :
              h \in 1..Len(file_diff_.hunks)}

\* A finite set of numbers as an ascending sequence.
RECURSIVE Ascending(_)
Ascending(S) ==
    IF S = {} THEN <<>>
    ELSE LET m == CHOOSE x \in S : \A y \in S : x <= y
         IN  <<m>> \o Ascending(S \ {m})

AnnotationLines == annotation.start_line..annotation.end_line

\* C1: on a well-formed Modified/Renamed diff that deletes no line of the
\* annotation, adjust_annotation agrees with the walk of the interleaved
\* stream: Unchanged when old line `start` keeps its number, otherwise
\* Shifted with new_start the new number of old line `start`.
C1_InterleavedWalk ==
    (/\ adjust_result # NoResult
     /\ \A k \in AnnotationLines : ~OldDeleted(edit, k))
    => IF NewLineOf(edit, annotation.start_line) = annotation.start_line
       THEN adjust_result = Unchanged
       ELSE /\ adjust_result.kind = "Shifted"
            /\ adjust_result.new_start = NewLineOf(edit, annotation.start_line)

\* C2: Deleted exactly when every line of the annotation occurs as a
\* Deletion line of the diff, Conflict exactly when some but not all do, with
\* deleted_lines those lines in ascending order; when none does, Unchanged
\* exactly when the accumulated offset is 0 and Shifted otherwise.
C2_DeletionClassification ==
    adjust_result # NoResult =>
        LET D == DeletionLinesOf(file_diff) \cap AnnotationLines
            n == annotation.end_line - annotation.start_line + 1
            offset == HunkWalk(annotation, file_diff).offset
        IN  /\ (adjust_result = Deleted) <=> (Cardinality(D) = n)
            /\ (adjust_result.kind = "Conflict")
                   <=> (0 < Cardinality(D) /\ Cardinality(D) < n)
            /\ adjust_result.kind = "Conflict"
                   => adjust_result.deleted_lines = Ascending(D)
            /\ D = {} => /\ (adjust_result = Unchanged) <=> (offset = 0)
                         /\ (adjust_result.kind = "Shifted") <=> (offset # 0)

\* C2 witness: a Conflict over two deleted lines has been returned.
C2_Witness ==
    /\ adjust_result.kind = "Conflict"
    /\ Len(adjust_result.deleted_lines) = 2


(***************************************************************************)
(* Claims about the store (SpecStore)                                      *)
(***************************************************************************)
RewriteOps == {"save", "update", "delete"}
SavePcs == {"save_tmp", "save_write"}

CrashedIn(pcs) == pc = "idle" /\ last_exit.kind = "crash" /\ last_exit.at \in pcs

\* C7: while a rewrite of the target (save_annotations, save_file_statuses:
\* both are atomic_write_jsonl) is under way, and after a crash at any of
\* its steps, the target holds the complete old contents or the complete
\* new contents; before the rename, and so after a crash that follows the
\* writing of the temp file, it is the old contents unchanged.
C7_AtomicRewrite ==
    /\ (call.op \in RewriteOps /\ (pc \in SavePcs \/ CrashedIn(SavePcs)))
           => \/ ann_file = at_start.ann_file
              \/ ann_file = atomic_write_jsonl(call.items)
    /\ (call.op \in RewriteOps /\ (pc \in SavePcs \/ CrashedIn({"save_write"})))
           => ann_file = at_start.ann_file

\* C7 witness: a save of two records over a file that holds a record died
\* after the temp file was written in full and before the rename.
C7_Witness ==
    /\ call.op = "save"
    /\ CrashedIn({"save_write"})
    /\ Len(call.items) = 2
    /\ tmp_file = atomic_write_jsonl(call.items)
    /\ at_start.ann_file.content # <<>>
    /\ at_start.ann_file # atomic_write_jsonl(call.items)
    /\ ann_file = at_start.ann_file

\* C8: the store round-trips as ordered sequences: load after save(L) gives
\* L, and load after append(a) gives the list loaded before the append
\* followed by a.
C8_RoundTrip ==
    /\ (pc = "idle" /\ call.op = "save" /\ last_exit = Exit("ok", "save_write"))
           => load_jsonl(ann_file) = Ok(call.items)
    /\ (/\ pc = "idle"
        /\ call.op = "append"
        /\ last_exit = Exit("ok", "append_nl")
        /\ load_jsonl(at_start.ann_file).ok)
           => load_jsonl(ann_file)
                  = Ok(load_jsonl(at_start.ann_file).value \o call.items)


(***************************************************************************)
(* Claims about the runs (SpecRun)                                         *)
(***************************************************************************)
PathRanges(anns) ==
    [i \in 1..Len(anns) |->
        [file_path |-> anns[i].file_path, start_line |-> anns[i].start_line,
         end_line |-> anns[i].end_line]]

Persisted(file) == PathRanges(load_jsonl(file).value)

AnchorIs(commit) == SessionLoad(session_file) = Ok([last_adjust_commit |-> commit])

BeforeSaveReturned == {"diff", "save_tmp", "save_write"}

\* C3: the run before this one was killed after save_annotations had
\* returned and before session.json was touched, so this run found the
\* anchor still at `from`, the head still at `to`, and in annotations.jsonl
\* what a single uninterrupted run leaves there. When its own
\* save_annotations has returned, the persisted annotations are equal in
\* path and line range to those of the single run.
C3_RerunAfterCrash ==
    (/\ pc = "anchor"
     /\ last_exit.kind = "crash"
     /\ last_exit.at \in {"anchor", "session_open"}
     /\ last_exit.to = to_commit)
        => Persisted(ann_file) = Persisted(at_start.ann_file)

\* C4: as long as save_annotations has not returned Ok in an adjusting run
\* (review or adjust command), and after a run that was killed or failed
\* before that, session.json is as the run found it: the persisted anchor is
\* not `to`.
C4_AnchorAfterSave ==
    /\ (\/ command # "none" /\ pc \in BeforeSaveReturned
        \/ /\ pc = "idle"
           /\ last_exit.kind \in {"crash", "error"}
           /\ last_exit.at \in BeforeSaveReturned)
           => session_file = at_start.session_file
    /\ (command # "none" /\ pc \in BeforeSaveReturned) => ~AnchorIs(to_commit)

\* C4 witness: run_adjustment has returned into the review session; the
\* annotations on disk have moved and the persisted anchor is `to`.
C4_Witness ==
    /\ pc = "tui"
    /\ call.op = "session"
    /\ call.then = "tui"
    /\ AnchorIs(to_commit)
    /\ from_commit # to_commit
    /\ Persisted(at_start.ann_file) # <<>>
    /\ Persisted(ann_file) # Persisted(at_start.ann_file)

\* C5: when an adjustment run for (from, to) has returned Ok (run_adjustment
\* into the review session, cmd_adjust to the shell) the persisted anchor is
\* `to`; and no run computes a diff while the head is one an adjustment has
\* returned Ok for.
C5_AnchorMonotone ==
    /\ (pc = "tui" /\ call.op = "session" /\ call.then = "tui")
           => AnchorIs(to_commit)
    /\ (/\ pc = "idle"
        /\ last_exit.kind = "ok"
        /\ last_exit.command = "adjust"
        /\ last_exit.at = "session_data")
           => AnchorIs(last_exit.to)
    /\ pc = "diff" => ~head_adjusted

Members(list) == Range(list)

HasId(list, id) == \E a \in Range(list) : a.id = id

\* C9: after an edit (create, update or delete), undo followed by redo
\* leaves the annotation list, in memory and in the store, as it was
\* immediately before the undo.
C9_UndoRedo ==
    Len(trail.ops) = 3 =>
        /\ annotations = trail.before_undo.annotations
        /\ Stored = trail.before_undo.stored

\* C10: undo after an edit restores the set of annotations that existed
\* before the edit, in memory and in the store: a created annotation is
\* absent again, a deleted one is present again with its id, path, range
\* and text, an updated one has its old text again.
C10_UndoRestores ==
    Len(trail.ops) = 2 =>
        LET subject == trail.subject[1]
        IN  /\ Members(annotations) = Members(trail.before_edit.annotations)
            /\ Members(Stored) = Members(trail.before_edit.stored)
            /\ trail.ops[1] = "create" =>
                   /\ ~HasId(annotations, subject.id)
                   /\ ~HasId(Stored, subject.id)
            /\ trail.ops[1] \in {"delete", "update"} =>
                   /\ subject \in Members(annotations)
                   /\ subject \in Members(Stored)

\* No two annotations of a list share an id.
UniqueIds(list) ==
    \A i, j \in 1..Len(list) : i # j => list[i].id # list[j].id

\* C11: after any sequence of create, update, delete, undo and redo in a
\* review session, no two annotations in memory, and no two in
\* annotations.jsonl, share an id.
C11_UniqueIds == UniqueIds(annotations) /\ UniqueIds(Stored)

\* ---- claims about the undo ledger ----

\* The actions the two stacks hold.
Held2(stack) == Len(stack.undo) + Len(stack.redo)

\* C12: on the ledger, undo() then redo() on a non-empty undo stack leaves
\* both stacks exactly as they were, and so does redo() then undo() on a
\* non-empty redo stack; neither changes the number of actions the two
\* stacks hold together. The session's Undo key followed by its Redo key
\* leaves the ledger as it was before the Undo.
C12_LedgerInvolution ==
    /\ undo_stack.undo # <<>> =>
           redo(undo(undo_stack).stack).stack = undo_stack
    /\ undo_stack.redo # <<>> =>
           undo(redo(undo_stack).stack).stack = undo_stack
    /\ Held2(undo(undo_stack).stack) = Held2(undo_stack)
    /\ Held2(redo(undo_stack).stack) = Held2(undo_stack)
    /\ Len(trail.ops) = 3 => undo_stack = trail.before_undo.stack

\* An Undo key has just moved an action, and both stacks hold something.
C12_Witness ==
    /\ Len(trail.ops) = 2
    /\ undo_stack.undo # <<>>
    /\ undo_stack.redo # <<>>
    /\ Held2(undo_stack) = Held2(trail.before_undo.stack)

\* The actions a push may be handed in the present state.
PushPool ==
    {Create(a) : a \in Range(annotations)}
        \cup {Delete(a) : a \in Range(annotations)}
        \cup Range(undo_stack.undo) \cup Range(undo_stack.redo)

\* C13: push(a) puts a on top of the undo stack and empties the redo stack
\* whatever it held: after a push can_redo is false and the next undo()
\* returns invert(a). After an edit of the session the redo stack is empty
\* and the edit's action is on top of the undo stack as it was before.
C13_PushClearsRedo ==
    /\ \A a \in PushPool :
           LET pushed == push(undo_stack, a)
           IN  /\ pushed.redo = <<>>
               /\ pushed.undo = Append(undo_stack.undo, a)
               /\ undo(pushed).action = Some(invert(a))
    /\ Len(trail.ops) = 1 =>
           /\ undo_stack.redo = <<>>
           /\ Front(undo_stack.undo) = trail.before_edit.stack.undo
           /\ Last(undo_stack.undo).old = trail.subject[1]

\* An edit was made while the redo stack held an action.
C13_Witness ==
    /\ Len(trail.ops) = 1
    /\ trail.before_edit.stack.redo # <<>>
    /\ undo_stack.redo = <<>>

\* ---- claims about renames and adjustments over a list ----

\* Diff k of the list is a rename with both paths.
IsRename(k) ==
    /\ diff_list[k].status = "Renamed"
    /\ diff_list[k].old_path # None
    /\ diff_list[k].new_path # None

\* apply_renames has returned.
RenamesDone == pc # "apply_renames"

\* C14: after apply_renames returns, no annotation has a file_path equal
\* to the old_path of any Renamed diff of the list, for every list of
\* diffs, those in which one diff's new_path is another's old_path
\* included.
C14_NoOldPath ==
    RenamesDone =>
        \A i \in 1..Len(batch_seen.renamed), k \in 1..Len(diff_list) :
            IsRename(k) =>
                batch_seen.renamed[i].file_path # diff_list[k].old_path[1]

\* The annotation list as it is when diff k is applied.
ListBefore(k) ==
    apply_renames(batch_seen.input, SubSeq(diff_list, 1, k - 1),
                  BatchNow).annotations

OnPath(list, path) == \E i \in 1..Len(list) : list[i].file_path = path

\* C15: the list apply_renames returns holds the pair (old_path, new_path)
\* of a Renamed diff if and only if at least one annotation had
\* file_path = old_path when that diff was applied; a diff that is not
\* Renamed contributes no pair.
C15_RenameReport ==
    RenamesDone =>
        /\ \A k \in 1..Len(diff_list) :
               IsRename(k) =>
                   (<<diff_list[k].old_path[1], diff_list[k].new_path[1]>>
                        \in Range(rename_report)
                    <=> \E j \in 1..Len(diff_list) :
                            /\ IsRename(j)
                            /\ diff_list[j].old_path = diff_list[k].old_path
                            /\ diff_list[j].new_path = diff_list[k].new_path
                            /\ OnPath(ListBefore(j), diff_list[j].old_path[1]))
        /\ \A pair \in Range(rename_report) :
               \E k \in 1..Len(diff_list) :
                   /\ IsRename(k)
                   /\ pair = <<diff_list[k].old_path[1],
                               diff_list[k].new_path[1]>>

\* C16: for a Renamed diff old -> new that carries hunks, apply_renames
\* and then adjust_annotations give every annotation that was on `old` the
\* file_path `new` and the AdjustResult of that diff's hunks, whatever other
\* diffs are in the list.
C16_RenameThenHunks ==
    pc = "apply_adjustments" =>
        \A i \in 1..Len(batch_seen.input), k \in 1..Len(diff_list) :
            (/\ IsRename(k)
             /\ diff_list[k].hunks # <<>>
             /\ batch_seen.input[i].file_path = diff_list[k].old_path[1]) =>
                /\ batch_seen.renamed[i].file_path = diff_list[k].new_path[1]
                /\ adjust_results[i][1] = batch_seen.renamed[i]
                /\ adjust_results[i][2] =
                       adjust_annotation(batch_seen.input[i], diff_list[k])

\* What the claims compare of an annotation.
Placed(a) ==
    [id |-> a.id, file_path |-> a.file_path, start_line |-> a.start_line,
     end_line |-> a.end_line]

\* C17: apply_adjustments is idempotent: the same results applied a second
\* time to the adjusted list change no annotation's membership,
\* file_path, start_line or end_line.
C17_ApplyIdempotent ==
    pc = "returned" =>
        /\ Len(annotations) = Len(batch_seen.applied)
        /\ \A i \in 1..Len(annotations) :
               Placed(annotations[i]) = Placed(batch_seen.applied[i])

\* The results have been applied twice, and the first time some annotation
\* moved and another was removed.
C17_Witness ==
    /\ pc = "returned"
    /\ Len(batch_seen.applied) < Len(batch_seen.renamed)
    /\ \E i \in 1..Len(batch_seen.applied) :
           \E j \in 1..Len(adjust_results) :
               /\ adjust_results[j][2].kind = "Shifted"
               /\ adjust_results[j][1].id = batch_seen.applied[i].id
               /\ batch_seen.applied[i].start_line
                      = adjust_results[j][2].new_start

\* The result that names an id, None when none does.
ResultFor(id) ==
    LET at == {j \in 1..Len(adjust_results) : adjust_results[j][1].id = id}
    IN  IF at = {} THEN None
        ELSE Some(adjust_results[CHOOSE j \in at : \A l \in at : j <= l][2])

\* The ids of a list in its order.
IdsOf(list) == [i \in 1..Len(list) |-> list[i].id]

RECURSIVE Survivors(_, _)
Survivors(list, i) ==
    IF i > Len(list) THEN <<>>
    ELSE IF ResultFor(list[i].id) = Some(Deleted) THEN Survivors(list, i + 1)
    ELSE <<list[i].id>> \o Survivors(list, i + 1)

\* C18: apply_adjustments changes only what each result names: Shifted
\* sets start_line and end_line of the annotation with that id and leaves
\* its id, file_path, text and created_at; Deleted removes exactly the
\* annotations with that id; Conflict and Unchanged leave the annotation
\* untouched, as an annotation no result names is; the survivors keep
\* their order.
C18_ApplyFrame ==
    pc = "apply_again" =>
        LET before == batch_seen.renamed
            after == batch_seen.applied
        IN  /\ IdsOf(after) = Survivors(before, 1)
            /\ \A i \in 1..Len(after) :
                   LET a == after[i]
                       old == CHOOSE b \in Range(before) : b.id = a.id
                       result == ResultFor(a.id)
                   IN  IF result # None /\ result[1].kind = "Shifted"
                       THEN /\ a.start_line = result[1].new_start
                            /\ a.end_line = result[1].new_end
                            /\ a.file_path = old.file_path
                            /\ a.text = old.text
                            /\ a.created_at = old.created_at
                       ELSE a = old

\* Applied: one annotation moved, another, named by no result or by an
\* Unchanged or Conflict one, stayed.
C18_Witness ==
    /\ pc = "apply_again"
    /\ Len(batch_seen.applied) = 2
    /\ \E i, j \in 1..2 :
           /\ ResultFor(batch_seen.applied[i].id) # None
           /\ ResultFor(batch_seen.applied[i].id)[1].kind = "Shifted"
           /\ batch_seen.applied[i] # batch_seen.renamed[i]
           /\ ResultFor(batch_seen.applied[j].id) = None
           /\ batch_seen.applied[j] = batch_seen.renamed[j]

\* ---- further claims about adjust_annotation ----

C20_InsertionAtStart ==
    (/\ adjust_result # NoResult
     /\ Len(file_diff.hunks) = 1
     /\ file_diff.hunks[1].old_lines = 0
     /\ file_diff.hunks[1].old_start = annotation.start_line)
    => adjust_result =
           Shifted(annotation.start_line, annotation.end_line,
                   annotation.start_line + file_diff.hunks[1].new_lines,
                   annotation.end_line + file_diff.hunks[1].new_lines)

\* C21: whenever adjust_annotation returns Shifted{old_start, old_end,
\* new_start, new_end}, old_start = start, old_end = end and
\* new_end - new_start = end - start: both ends move by the same offset and
\* the length of the range is kept.
C21_ShiftKeepsLength ==
    adjust_result.kind = "Shifted" =>
        /\ adjust_result.old_start = annotation.start_line
        /\ adjust_result.old_end = annotation.end_line
        /\ adjust_result.new_end - adjust_result.new_start
               = annotation.end_line - annotation.start_line
        /\ adjust_result.new_start - annotation.start_line
               = adjust_result.new_end - annotation.end_line

\* An annotation of several lines has moved by more than one line.
C21_Witness ==
    /\ adjust_result.kind = "Shifted"
    /\ annotation.end_line > annotation.start_line
    /\ \/ adjust_result.new_start > annotation.start_line + 1
       \/ adjust_result.new_start < annotation.start_line - 1

\* ---- further claims about the runs ----

\* C22: no store or session write failure is dropped: a review whose
\* startup adjustment has returned into the session has written its
\* anchor, for a failed write of session.json would have ended the run
\* with the error.
C22_FailureReported ==
    (pc = "tui" /\ from_commit # None) =>
        session_file = FileWith(SessionJson(last_adjust_commit))

\* C27: when a review starts and the session has no last_adjust_commit, no
\* diff is computed and no annotation is changed, in memory or in the
\* store, and the session's anchor becomes the id of the head.
C27_FirstAnchor ==
    [][(/\ pc = "idle"
        /\ command' = "review"
        /\ SessionLoad(session_file).ok
        /\ SessionLoad(session_file).value.last_adjust_commit = None)
       => /\ pc' = "tui"
          /\ last_adjust_commit' = Some(head_commit_id)
          /\ from_commit' = None
          /\ to_commit' = None
          /\ annotations' = load_jsonl(ann_file).value
          /\ ann_file' = ann_file
          /\ session_file' = session_file]_vars

\* A review without an anchor has started over stored annotations, at a
\* head that is not the first commit.
C27_Witness ==
    /\ pc = "tui"
    /\ command = "review"
    /\ ~session_file.exists
    /\ last_adjust_commit = Some(head_commit_id)
    /\ head_commit_id > 1
    /\ annotations # <<>>
    /\ load_jsonl(ann_file) = Ok(annotations)

\* C23: within a session operations observe their own writes: after every
\* create, update, delete, undo or redo (the store calls of the session
\* all succeed here), load_annotations returns the annotations of the
\* in-memory list in the same order.
C23_ReadYourWrites == load_jsonl(ann_file) = Ok(annotations)

\* What load_annotations has to return for a file, line by line: the
\* lines that are not blank, each one parsed.
C24_NonBlank(content) == SelectSeq(lines(content), LAMBDA l : trim(l) # <<>>)

C24_Expected(file) ==
    IF ~file.exists THEN Ok(<<>>)
    ELSE LET ls == C24_NonBlank(file.content)
         IN  IF \A i \in 1..Len(ls) : from_str(trim(ls[i])).ok
             THEN Ok([i \in 1..Len(ls) |-> from_str(trim(ls[i])).value])
             ELSE Err

\* C24: load_annotations returns the empty list when the file does not
\* exist, skips blank lines, and fails as a whole when a non-blank line
\* does not parse (a partial trailing line of a crashed append, say): what
\* it returns is every record of the file in order, or an error, never a
\* part of the list.
C24_LoadWholeOrFail ==
    call.op = "load" =>
        /\ loaded = C24_Expected(ann_file)
        /\ ~ann_file.exists => loaded = Ok(<<>>)
        /\ loaded.ok => Len(loaded.value) = Len(C24_NonBlank(ann_file.content))
        /\ ~loaded.ok => loaded.value = <<>>

\* A load of a file with a blank line, a whole record and a torn last line
\* has failed.
C24_Witness ==
    /\ call.op = "load"
    /\ ann_file.exists
    /\ Len(lines(ann_file.content)) = 3
    /\ lines(ann_file.content)[1] = <<>>
    /\ from_str(lines(ann_file.content)[2]).ok
    /\ ~from_str(lines(ann_file.content)[3]).ok
    /\ ~loaded.ok

\* The records of the file when the call began, and now.
C25_Before == load_jsonl(at_start.ann_file)
C25_After == load_jsonl(ann_file)

\* The first place of the list whose record has the id, 0 when none has.
C25_FirstWith(list, id) ==
    IF \E i \in 1..Len(list) : list[i].id = id
    THEN CHOOSE i \in 1..Len(list) :
            /\ list[i].id = id
            /\ \A j \in 1..(i - 1) : list[j].id # id
    ELSE 0

C25_Returned(op) ==
    pc = "idle" /\ call.op = op /\ last_exit = Exit("ok", "save_write")

\* C25: update_annotation(a) replaces the stored record with a's id in
\* place and delete_annotation(id) removes the records with the id; every
\* other record and the order of what remains stay as they were, and both
\* succeed and leave the list alone when no record has the id (they fail
\* only when the file does not load).
C25_UpdateDeleteFrame ==
    /\ C25_Returned("update") =>
        /\ C25_Before.ok /\ C25_After.ok
        /\ Len(C25_After.value) = Len(C25_Before.value)
        /\ \A i \in 1..Len(C25_Before.value) :
              C25_After.value[i] =
                  IF i = C25_FirstWith(C25_Before.value, call.arg.id)
                  THEN call.arg ELSE C25_Before.value[i]
    /\ C25_Returned("delete") =>
        /\ C25_Before.ok /\ C25_After.ok
        /\ C25_After.value =
              SelectSeq(C25_Before.value, LAMBDA a : a.id # call.arg)
    /\ (pc = "idle" /\ call.op \in {"update", "delete"} /\ last_exit.kind = "error")
          => (~C25_Before.ok /\ ann_file = at_start.ann_file)

\* An update has replaced the second of two records where it stood.
C25_Witness ==
    /\ C25_Returned("update")
    /\ Len(C25_Before.value) = 2
    /\ C25_FirstWith(C25_Before.value, call.arg.id) = 2
    /\ C25_Before.value[2] # call.arg
    /\ C25_After.value = <<C25_Before.value[1], call.arg>>

\* C26: starting from an empty status file, after any sequence of
\* set_file_status calls the file holds at most one record per path, and
\* get_file_status(p) returns the status last set for p, or Unreviewed if
\* none was ever set.
C26_OneStatusPerPath ==
    /\ \A i, j \in 1..Len(status_file.content) :
          status_file.content[i].file_path = status_file.content[j].file_path
              => i = j
    /\ \A p \in StatusPaths :
          get_file_status(status_file, p) =
              IF last_status[p] = None THEN "Unreviewed" ELSE last_status[p][1]

\* Two paths have their records, the first of them set anew after the
\* second was pushed, and the third path was never set.
C26_Witness ==
    /\ Len(status_file.content) = 2
    /\ status_file.content[1] = [file_path |-> "a.rs", status |-> "Clean"]
    /\ status_file.content[2] = [file_path |-> "b.rs", status |-> "Annotated"]
    /\ last_status["a.rs"] = Some("Clean")
    /\ last_status["c.rs"] = None
    /\ get_file_status(status_file, "c.rs") = "Unreviewed"

\* The sum of the net offsets (new_lines - old_lines) of a list of hunks.
RECURSIVE C28_NetSum(_)
C28_NetSum(hunks) ==
    IF hunks = <<>> THEN 0
    ELSE Head(hunks).new_lines - Head(hunks).old_lines + C28_NetSum(Tail(hunks))

C28_AllBefore ==
    \A i \in 1..Len(file_diff.hunks) :
        old_end(file_diff.hunks[i]) < annotation.start_line

\* C28: if every hunk of a Modified diff ends strictly before the
\* annotation (old_end < start), the result is Shifted by the sum of the
\* hunks' net offsets, or Unchanged when the sum is 0.
C28_HunksBefore ==
    (adjust_result # NoResult /\ file_diff.status = "Modified" /\ C28_AllBefore)
        => adjust_result =
              IF C28_NetSum(file_diff.hunks) = 0 THEN Unchanged
              ELSE Shifted(annotation.start_line, annotation.end_line,
                           annotation.start_line + C28_NetSum(file_diff.hunks),
                           annotation.end_line + C28_NetSum(file_diff.hunks))

\* Two hunks above the annotation, of different net offsets, have moved it.
C28_Witness ==
    /\ adjust_result.kind = "Shifted"
    /\ file_diff.status = "Modified"
    /\ C28_AllBefore
    /\ Len(file_diff.hunks) = 2
    /\ net_offset(file_diff.hunks[1]) > 0
    /\ net_offset(file_diff.hunks[2]) < 0
    /\ C28_NetSum(file_diff.hunks) # 0

\* The diff without its hunks that begin after the annotation's end.
C29_WithoutAfter ==
    [file_diff EXCEPT !.hunks =
        SelectSeq(file_diff.hunks, LAMBDA h : ~(h.old_start > annotation.end_line))]

\* The stream position of old line n.
C29_PositionOfOld(n) == CHOOSE i \in 1..Len(edit) : edit[i] # "Addition" /\ OldNo(edit, i) = n

\* C29: hunks that begin strictly after the annotation's end
\* (old_start > end) do not affect the result: the diff without them
\* gives the same AdjustResult, a diff made only of such hunks gives
\* Unchanged, and so does every change that lies wholly after the
\* annotation's last line (an insertion at end+1 among them), however the
\* hunks are cut.
C29_HunksAfter ==
    adjust_result # NoResult =>
        /\ adjust_result = adjust_annotation(annotation, C29_WithoutAfter)
        /\ (\A i \in 1..Len(file_diff.hunks) :
                file_diff.hunks[i].old_start > annotation.end_line)
              => adjust_result = Unchanged
        /\ (\A i \in 1..C29_PositionOfOld(annotation.end_line) : edit[i] = "Context")
              => adjust_result = Unchanged

\* A hunk above the annotation has moved it and a hunk below it, one that
\* changes the length of the file, has not.
C29_Witness ==
    /\ adjust_result.kind = "Shifted"
    /\ Len(file_diff.hunks) = 2
    /\ old_end(file_diff.hunks[1]) < annotation.start_line
    /\ file_diff.hunks[2].old_start > annotation.end_line
    /\ net_offset(file_diff.hunks[2]) # 0
    /\ adjust_result.new_start =
           annotation.start_line + net_offset(file_diff.hunks[1])

\* The only change of the edit is the deletion of old line start - 1.
C30_DeletionAbove ==
    /\ annotation.start_line >= 2
    /\ \A i \in 1..Len(edit) :
          edit[i] = (IF i = annotation.start_line - 1 THEN "Deletion" ELSE "Context")

\* C30: a Deletion of old line start-1 with no other change is pre-range
\* and shifts the annotation up by one, to [start-1, end-1], both when the
\* hunk ends before start and when the hunk's context lines reach into
\* the annotation.
C30_DeletionJustAbove ==
    (adjust_result # NoResult /\ C30_DeletionAbove)
        => adjust_result = Shifted(annotation.start_line, annotation.end_line,
                                   annotation.start_line - 1,
                                   annotation.end_line - 1)

\* The deletion's hunk holds context lines of the annotation, whose lines
\* have moved up by one.
C30_Witness ==
    /\ C30_DeletionAbove
    /\ adjust_result.kind = "Shifted"
    /\ Len(file_diff.hunks) = 1
    /\ old_end(file_diff.hunks[1]) >= annotation.end_line
    /\ annotation.end_line > annotation.start_line
    /\ adjust_result.new_end = annotation.end_line - 1

\* The place in diff_list of the first diff whose old_path or new_path is
\* the path, 0 when there is none.
C31_DiffFor(path) ==
    LET at == {k \in 1..Len(diff_list) :
                  diff_list[k].old_path = Some(path)
                      \/ diff_list[k].new_path = Some(path)}
    IN  IF at = {} THEN 0 ELSE CHOOSE k \in at : \A l \in at : k <= l

\* C31: the file-level cases decide before any hunk is looked at: a diff
\* with status Deleted gives Deleted and a diff with status Added gives
\* Unchanged whatever hunks it carries, and an annotation whose file_path
\* matches no diff's old_path or new_path gets Unchanged.
C31_FileLevelCases ==
    \A i \in 1..Len(adjust_results) :
        LET k == C31_DiffFor(adjust_results[i][1].file_path)
        IN  /\ k = 0 => adjust_results[i][2] = Unchanged
            /\ (k # 0 /\ diff_list[k].status = "Deleted")
                  => adjust_results[i][2] = Deleted
            /\ (k # 0 /\ diff_list[k].status = "Added")
                  => adjust_results[i][2] = Unchanged

\* Of two annotations one is on an added file, whose diff carries a hunk,
\* and is Unchanged; the other is on a path no diff names.
C31_Witness ==
    /\ pc = "apply_adjustments"
    /\ Len(adjust_results) = 2
    /\ Len(diff_list) = 2
    /\ C31_DiffFor(adjust_results[1][1].file_path) # 0
    /\ diff_list[C31_DiffFor(adjust_results[1][1].file_path)].status = "Added"
    /\ diff_list[C31_DiffFor(adjust_results[1][1].file_path)].hunks # <<>>
    /\ adjust_results[1][2] = Unchanged
    /\ C31_DiffFor(adjust_results[2][1].file_path) = 0
    /\ adjust_results[2][2] = Unchanged

\* An annotation with 1-based lines, a range that is not empty and a path.
C32_WellFormed(a) ==
    /\ 1 <= a.start_line
    /\ a.start_line <= a.end_line
    /\ a.end_line < AsU32(-1)
    /\ a.file_path # ""

\* C32: every annotation held in memory or persisted satisfies
\* 1 <= start_line <= end_line and has a non-empty file_path, after any
\* sequence of cursor and selection movements, annotation creations, and
\* adjustments against well-formed diffs.
C32_AllWellFormed ==
    /\ \A i \in 1..Len(annotations) : C32_WellFormed(annotations[i])
    /\ LET stored == load_jsonl(ann_file)
       IN  stored.ok => \A i \in 1..Len(stored.value) : C32_WellFormed(stored.value[i])

\* An annotation made from a selection drawn upwards over two lines has
\* been moved down by a line committed on top of the file, and the
\* selection is drawn again.
C32_Witness ==
    /\ Len(commits) = 2
    /\ commits[2].content = <<11, 1, 2>>
    /\ Len(annotations) = 1
    /\ annotations[1].start_line = 2
    /\ annotations[1].end_line = 3
    /\ load_jsonl(ann_file) = Ok(annotations)
    /\ selection # None
    /\ selection[1].start_line < selection[1].anchor_line

\* The steps of run_adjustment.
C33_AdjustPcs ==
    {"diff", "save_tmp", "save_write", "anchor", "session_open", "session_data"}

\* C33: adjustments made by the engine are not recorded in the undo
\* ledger: no step of the startup adjustment changes the undo or the redo
\* stack, which are empty as App::new made them, so that undo and redo
\* return no action after it; and every action the ledger holds is an edit
\* of the present session, made after the adjustment.
C33_AdjustmentNotRecorded ==
    [][/\ pc \in C33_AdjustPcs =>
              /\ undo_stack' = undo_stack
              /\ undo(undo_stack').action = None
              /\ redo(undo_stack').action = None
       /\ \A i \in 1..Len(undo_stack'.undo) :
              undo_stack'.undo[i].old.created_at = Len(commits') + 1
       /\ \A i \in 1..Len(undo_stack'.redo) :
              undo_stack'.redo[i].old.created_at = Len(commits') + 1]_vars

\* An annotation of the session before has been moved down by the startup
\* adjustment, and the ledger holds nothing to undo.
C33_Witness ==
    /\ pc = "tui"
    /\ head_adjusted
    /\ Len(commits) = 2
    /\ commits[2].content = <<11, 1, 2>>
    /\ Len(annotations) = 1
    /\ annotations[1].created_at = 2
    /\ annotations[1].start_line = 3
    /\ annotations[1].end_line = 3
    /\ undo(undo_stack).action = None
    /\ redo(undo_stack).action = None

\* C34: undo() on an empty undo stack and redo() on an empty redo stack
\* return no action and leave both stacks unchanged.
C34_EmptyStacks ==
    /\ undo_stack.undo = <<>> =>
           /\ undo(undo_stack).action = None
           /\ undo(undo_stack).stack = undo_stack
    /\ undo_stack.redo = <<>> =>
           /\ redo(undo_stack).action = None
           /\ redo(undo_stack).stack = undo_stack

\* An Undo key has emptied the undo stack: another undo() returns nothing
\* and keeps the action that can be redone.
C34_Witness ==
    /\ Len(trail.ops) = 2
    /\ undo_stack.undo = <<>>
    /\ undo_stack.redo # <<>>
    /\ undo(undo_stack) = [stack |-> undo_stack, action |-> None]

\* C35: redo() returns the inverse of the action it moves from the redo
\* stack back to the undo stack: after push(Create a) and undo(), which
\* returns Delete(a), redo() also returns Delete(a) and leaves can_undo
\* true and can_redo false.
C35_RedoReturnsInverse ==
    /\ undo_stack.redo # <<>> =>
           /\ redo(undo_stack).action = Some(invert(Last(undo_stack.redo)))
           /\ redo(undo_stack).stack.undo =
                  Append(undo_stack.undo, Last(undo_stack.redo))
    /\ \A a \in Range(annotations) :
           LET pushed == push(undo_stack, Create(a))
               undone == undo(pushed)
               redone == redo(undone.stack)
           IN  /\ undone.action = Some(Delete(a))
               /\ redone.action = Some(Delete(a))
               /\ redone.stack.undo # <<>>
               /\ redone.stack.redo = <<>>
               /\ Last(redone.stack.undo) = Create(a)

\* The keys create, undo, redo have been pressed: the Create is back on the
\* undo stack, nothing can be redone, and the redo has deleted again, so
\* that the annotation is not in the list.
C35_Witness ==
    /\ trail.ops = <<"create", "undo", "redo">>
    /\ undo_stack.redo = <<>>
    /\ undo_stack.undo # <<>>
    /\ Last(undo_stack.undo) = Create(trail.subject[1])
    /\ \A i \in 1..Len(annotations) : annotations[i].id # trail.subject[1].id

\* The Renamed diffs of the list whose old_path is the path.
C36_RenamesOf(path) ==
    {k \in 1..Len(diff_list) : IsRename(k) /\ diff_list[k].old_path = Some(path)}

\* C36: apply_renames rewrites each annotation at most once and
\* independently of the order of the diffs: an annotation whose file_path
\* before the call is the old_path of a Renamed diff ends with exactly that
\* diff's new_path (also for chains a->b, b->c and swaps a->b, b->a), and
\* every other annotation keeps its file_path. No path is the old_path of
\* two Renamed diffs of the list.
C36_RenameOnce ==
    (/\ RenamesDone
     /\ \A path \in BatchPaths : Cardinality(C36_RenamesOf(path)) <= 1)
        => \A i \in 1..Len(batch_seen.input) :
               LET of == C36_RenamesOf(batch_seen.input[i].file_path)
               IN  batch_seen.renamed[i].file_path =
                       IF of = {} THEN batch_seen.input[i].file_path
                       ELSE diff_list[CHOOSE k \in of : TRUE].new_path[1]

\* C37: persisted annotations never exist without a persisted anchor:
\* whenever no run is under way, after a crash during a first review
\* session too, if annotations.jsonl holds an annotation then session.json
\* records a last_adjust_commit.
C37_AnchorWithAnnotations ==
    (pc = "idle" /\ load_jsonl(ann_file).ok /\ load_jsonl(ann_file).value # <<>>)
        => /\ SessionLoad(session_file).ok
           /\ SessionLoad(session_file).value.last_adjust_commit # None

\* The results the run at "diff" gets from adjust_annotations.
C38_Results ==
    LET base == IF command = "adjust" THEN load_jsonl(ann_file).value
                ELSE annotations
        diffs == compute_diffs(from_commit[1], to_commit[1])
    IN  adjust_annotations(apply_renames(base, diffs, Now).annotations, diffs)

C38_Conflicts ==
    {i \in 1..Len(C38_Results) : C38_Results[i][2].kind = "Conflict"}

\* C38: a Conflict does not block the run: an adjustment whose results
\* contain a Conflict goes on to save the annotations, the conflicted
\* annotation among them at its old line range, and, once an adjustment to
\* the head has returned Ok, a following run at that head reports no
\* conflict for an annotation that run had (one made before the head was
\* committed).
C38_ConflictDoesNotBlock ==
    [][/\ (pc = "diff" /\ pc' # "idle" /\ C38_Conflicts # {}) =>
              /\ pc' = "save_tmp"
              /\ call'.items = annotations'
              /\ \A i \in C38_Conflicts :
                     \E k \in 1..Len(annotations') :
                         /\ annotations'[k].id = C38_Results[i][1].id
                         /\ annotations'[k].start_line = C38_Results[i][1].start_line
                         /\ annotations'[k].end_line = C38_Results[i][1].end_line
       /\ (pc = "diff" /\ head_adjusted) =>
              \A i \in C38_Conflicts :
                  C38_Results[i][1].created_at >= to_commit[1]]_vars


\* C39: every file whose persisted status is Annotated has at least one
\* annotation with that file_path in the session's list, after any sequence
\* of create, delete-at-cursor, undo and redo.
C39_AnnotatedHasAnnotation ==
    \A i \in 1..Len(status_file.content) :
        status_file.content[i].status = "Annotated" =>
            \E k \in 1..Len(annotations) :
                annotations[k].file_path = status_file.content[i].file_path

====
